---- MODULE Spec2Model ----
(***************************************************************************)
(* Level-editor tooling of rpg_tactical_fantasy_game: the tileset loader,  *)
(* the metadata overlay, the palette model, the TMX round-trip helper and  *)
(* the class-data loader.                                                  *)
(*                                                                         *)
(* Conventions.  A Python str on which the code computes (split, join,     *)
(* sort, escape) is a sequence of one-character strings; a str that is     *)
(* only compared (a tileset name, a property key, a path) is a TLA+        *)
(* string.  Optional[T] is a sequence of length at most one: <<>> is None  *)
(* (or an absent XML attribute) and <<v>> is the value v.  A dict is a     *)
(* function whose DOMAIN is its key set.  A call that may raise returns a  *)
(* record with the fields ok and exc (the exception's class name).         *)
(***************************************************************************)
EXTENDS Integers, Sequences, FiniteSets, TLC

VARIABLES
    pc,         \* position of the driver of the subsystem under check
    tsx_paths,  \* tileset_loader: the TSX files handed to load_tilesets
    cache,      \* tileset_loader.load_tilesets: name -> TilesetData
    heap,       \* the dict objects TileEntry.properties refer to: ref -> dict
    load_exc,   \* the exception load_tilesets ended with ("" when none)
    metadata,   \* metadata.load_metadata: the side-file's document
    n_applied,  \* metadata: number of apply_metadata calls so far
    state,      \* palette_model: PaletteModel.state, a PaletteState
    tmx_args,   \* tmx_roundtrip: input_path, output_path and --set-property
    tmx_files,  \* tmx_roundtrip: the TMX files on disk, path -> XML text
    tmx_tree,   \* tmx_roundtrip: the tree of round_trip, as parsed and as written
    tmx_result, \* tmx_roundtrip: how round_trip ended
    tmx_loaded, \* the map properties a reload of the written file yields
    classes_json,   \* load_from_json_manager: the content of data/classes.json
    classes_result, \* load_from_json_manager: how load_classes ended
    panel,      \* palette_ui: the PalettePanel over the model (<<>> before it is built)
    event       \* palette_ui: the event or call the panel handled last

vars == <<pc, tsx_paths, cache, heap, load_exc, metadata, n_applied, state,
          tmx_args, tmx_files, tmx_tree, tmx_result, tmx_loaded,
          classes_json, classes_result, panel, event>>

-----------------------------------------------------------------------------
(* Python helpers *)

Max(a, b) == IF a >= b THEN a ELSE b

Min(a, b) == IF a <= b THEN a ELSE b

EmptyDict == [k \in {} |-> <<>>]

\* dict.update: the entries of upd win over those of d
DictUpdate(d, upd) == upd @@ d

\* dict.get(k, default)
DictGet(d, k, default) == IF k \in DOMAIN d THEN d[k] ELSE default

\* Optional.get with a default, as attrib.get(name, default)
OptGet(opt, default) == IF opt = <<>> THEN default ELSE opt[1]

Raise(e) == [ok |-> FALSE, exc |-> e]

-----------------------------------------------------------------------------
(* tileset_loader.py *)

\* _parse_properties: the <property> children of the node's <properties>
\* child, in document order; an element with no or an empty name is skipped,
\* a missing value reads as "", and a later element of the same name wins.
_parse_properties(node) ==
    IF node.properties = <<>> THEN EmptyDict
    ELSE LET els == node.properties[1]
             named == {j \in 1..Len(els) : els[j].name # <<>> /\ els[j].name[1] # ""}
             keys == {els[j].name[1] : j \in named}
             last(k) == CHOOSE j \in named :
                            /\ els[j].name[1] = k
                            /\ \A i \in named : els[i].name[1] = k => i <= j
         IN [k \in keys |-> OptGet(els[last(k)].value, <<>>)]

\* The tile ids load_tileset keeps in tile_props: every <tile> whose id
\* attribute (default -1) is not negative.
TileIds(tsx) ==
    {t \in {OptGet(tsx.tiles[j].id, -1) : j \in 1..Len(tsx.tiles)} : t >= 0}

\* The <tile> element whose properties tile_props[tid] holds after the loop
\* of load_tileset: tile_props[tid] is assigned anew for every element.
TilePropsNode(tsx, tid) ==
    CHOOSE j \in 1..Len(tsx.tiles) :
        /\ OptGet(tsx.tiles[j].id, -1) = tid
        /\ \A i \in 1..Len(tsx.tiles) : OptGet(tsx.tiles[i].id, -1) = tid => i <= j

\* References to dict objects.  The dict parsed from the j-th <tile> element
\* of a file, and the fresh {} that tile_props.get(local_id, {}) builds for
\* a sliced tile without a <tile> element.
NodeRef(tsx, j) == <<tsx.path, "tile", j>>

FreshRef(tsx, local_id) == <<tsx.path, "new", local_id>>

\* tile_props.get(tid, {}) as a reference
TilePropsGet(tsx, tid) ==
    IF tid \in TileIds(tsx) THEN NodeRef(tsx, TilePropsNode(tsx, tid))
    ELSE FreshRef(tsx, tid)

\* animations.get(tid, False)
AnimationsGet(tsx, tid) ==
    \E j \in 1..Len(tsx.tiles) :
        OptGet(tsx.tiles[j].id, -1) = tid /\ tid >= 0 /\ tsx.tiles[j].animation

\* The rectangle _slice_tiles blits from the tileset image for local_id.
SliceRectMutant(info, local_id) ==
    LET cols == Max(1, info.columns)
        col == local_id % cols
        row == local_id \div cols
    IN [x |-> info.margin + col * (info.tile_width + info.spacing),
        y |-> info.margin + row * (info.tile_width + info.spacing),
        w |-> info.tile_width, h |-> info.tile_height]

SliceRect(info, local_id) ==
    LET cols == Max(1, info.columns)
        col == local_id % cols
        row == local_id \div cols
    IN [x |-> info.margin + col * (info.tile_width + info.spacing),
        y |-> info.margin + row * (info.tile_height + info.spacing),
        w |-> info.tile_width, h |-> info.tile_height]

\* _slice_tiles: one TileEntry per local id in range(tile_count)
_slice_tiles(info, tsx) ==
    [i \in 1..Max(0, info.tile_count) |->
        [tileset_name |-> info.name,
         local_id |-> i - 1,
         surface |-> [image |-> info.image_path[1], rect |-> SliceRect(info, i - 1)],
         properties |-> TilePropsGet(tsx, i - 1),
         is_animated |-> AnimationsGet(tsx, i - 1)]]

\* The <tile> elements _load_collection_tiles turns into entries: a
\* non-negative id, an <image> child and a non-empty source.
CollectionNodes(tsx) ==
    {j \in 1..Len(tsx.tiles) :
        /\ OptGet(tsx.tiles[j].id, -1) >= 0
        /\ tsx.tiles[j].image # <<>>
        /\ OptGet(tsx.tiles[j].image[1].source, "") # ""}

\* properties=tile_props.get(tid, {}) of the entry built from element j
CollectionPropsMutant(tsx, j) == NodeRef(tsx, j)

CollectionProps(tsx, j) == TilePropsGet(tsx, OptGet(tsx.tiles[j].id, -1))

\* _load_collection_tiles: the entries in the order of sorted(key=local_id),
\* a stable sort, so elements of one id keep their document order.
_load_collection_tiles(tsx) ==
    LET nodes == CollectionNodes(tsx)
        id(j) == OptGet(tsx.tiles[j].id, -1)
        before(i, j) == id(i) < id(j) \/ (id(i) = id(j) /\ i < j)
        at(p) == CHOOSE j \in nodes : Cardinality({i \in nodes : before(i, j)}) = p - 1
    IN IF \E j \in nodes : tsx.tiles[j].image[1].file # "ok"
       THEN Raise("TilesetLoadError")
       ELSE [ok |-> TRUE, exc |-> "",
             tiles |-> [p \in 1..Cardinality(nodes) |->
                 [tileset_name |-> OptGet(tsx.attrs.name, tsx.stem),
                  local_id |-> id(at(p)),
                  surface |-> [image |-> tsx.tiles[at(p)].image[1].source[1],
                               rect |-> [x |-> 0, y |-> 0,
                                         w |-> OptGet(tsx.attrs.tilewidth, 0),
                                         h |-> OptGet(tsx.attrs.tileheight, 0)]],
                  properties |-> CollectionProps(tsx, at(p)),
                  is_animated |-> AnimationsGet(tsx, id(at(p)))]]]

\* The dict objects the entries of a loaded tileset refer to.
TileDicts(tsx, tiles) ==
    [r \in {tiles[i].properties : i \in DOMAIN tiles} |->
        IF r[2] = "tile" THEN _parse_properties(tsx.tiles[r[3]]) ELSE EmptyDict]

\* _load_tileset_xml: ET.parse opens the file (a missing file raises
\* FileNotFoundError, which is not caught) and only ET.ParseError is turned
\* into TilesetLoadError.
_load_tileset_xml(tsx) ==
    IF ~tsx.exists THEN Raise("FileNotFoundError")
    ELSE IF ~tsx.wellformed THEN Raise("TilesetLoadError")
    ELSE [ok |-> TRUE, exc |-> ""]

\* load_tileset, image-based branch (root has an <image> child)
LoadImageTileset(tsx) ==
    LET a == tsx.attrs
        img == tsx.image[1]
        columns == OptGet(a.columns, 1)
        tile_width == a.tilewidth[1]
        tile_height == a.tileheight[1]
        declared == OptGet(a.tilecount, 0)
        cols == IF columns > 0 THEN columns ELSE Max(1, img.w \div tile_width)
        rows == Max(1, img.h \div tile_height)
        info == [name |-> OptGet(a.name, tsx.stem),
                 path |-> tsx.path,
                 image_path |-> img.source,
                 tile_width |-> tile_width,
                 tile_height |-> tile_height,
                 margin |-> OptGet(a.margin, 0),
                 spacing |-> OptGet(a.spacing, 0),
                 columns |-> columns,
                 tile_count |-> IF declared = 0 THEN cols * rows ELSE declared]
    IN IF OptGet(img.source, "") = "" THEN Raise("TilesetLoadError")
       ELSE IF img.file # "ok" THEN Raise("TilesetLoadError")
       ELSE LET tiles == _slice_tiles(info, tsx)
            IN [ok |-> TRUE, exc |-> "",
                data |-> [info |-> info, tiles |-> tiles],
                dicts |-> TileDicts(tsx, tiles)]

\* load_tileset, collection branch (every tile references its own image)
LoadCollectionTileset(tsx) ==
    LET a == tsx.attrs
        columns == OptGet(a.columns, 1)
        got == _load_collection_tiles(tsx)
    IN IF ~got.ok THEN got
       ELSE IF Len(got.tiles) = 0 THEN Raise("TilesetLoadError")
       ELSE [ok |-> TRUE, exc |-> "",
             data |-> [info |-> [name |-> OptGet(a.name, tsx.stem),
                                 path |-> tsx.path,
                                 image_path |-> <<>>,
                                 tile_width |-> a.tilewidth[1],
                                 tile_height |-> a.tileheight[1],
                                 margin |-> 0,
                                 spacing |-> 0,
                                 columns |-> Max(1, IF columns > 0 THEN columns
                                                    ELSE Len(got.tiles)),
                                 tile_count |-> Len(got.tiles)],
                       tiles |-> got.tiles],
             dicts |-> TileDicts(tsx, got.tiles)]

\* load_tileset.  Attribute values are decimal integers here; root.attrib
\* ["tilewidth"] and ["tileheight"] raise KeyError when the attribute is
\* absent.
load_tileset(tsx) ==
    LET xml == _load_tileset_xml(tsx)
    IN IF ~xml.ok THEN xml
       ELSE IF tsx.attrs.tilewidth = <<>> \/ tsx.attrs.tileheight = <<>>
            THEN Raise("KeyError")
       ELSE IF tsx.image # <<>> THEN LoadImageTileset(tsx)
       ELSE LoadCollectionTileset(tsx)

\* load_tilesets: cache[data.info.name] = data for each path in order; the
\* first exception ends the call.
RECURSIVE LoadInto(_, _, _)
LoadInto(paths, c, h) ==
    IF paths = <<>> THEN [ok |-> TRUE, exc |-> "", cache |-> c, heap |-> h]
    ELSE LET got == load_tileset(Head(paths))
         IN IF ~got.ok THEN got
            ELSE LoadInto(Tail(paths),
                          (got.data.info.name :> got.data) @@ c,
                          got.dicts @@ h)

EmptyCache == [n \in {} |-> <<>>]

EmptyHeap == [r \in {} |-> EmptyDict]

load_tilesets(paths) == LoadInto(paths, EmptyCache, EmptyHeap)

-----------------------------------------------------------------------------
(* Idle values of the subsystems a specification does not run *)

PanelIdle == panel = <<>> /\ event = <<>>

ClassesIdle == classes_json = <<>> /\ classes_result = <<>>

TmxIdle ==
    /\ tmx_args = <<>>
    /\ tmx_files = <<>>
    /\ tmx_tree = <<>>
    /\ tmx_result = <<>>
    /\ tmx_loaded = <<>>
    /\ ClassesIdle
    /\ PanelIdle

UnchangedTmx ==
    UNCHANGED <<tmx_args, tmx_files, tmx_tree, tmx_result, tmx_loaded,
                classes_json, classes_result, panel, event>>

-----------------------------------------------------------------------------
(* Python str operations on sequences of characters *)

\* ord() of the characters the model uses
Ord(c) ==
    CASE c = " " -> 32
      [] c = "&" -> 38
      [] c = "\"" -> 34
      [] c = "," -> 44
      [] c = "0" -> 48
      [] c = "1" -> 49
      [] c = "2" -> 50
      [] c = "3" -> 51
      [] c = ";" -> 59
      [] c = "<" -> 60
      [] c = "A" -> 65
      [] c = "B" -> 66
      [] c = "a" -> 97
      [] c = "b" -> 98
      [] c = "e" -> 101
      [] c = "n" -> 110
      [] c = "o" -> 111
      [] OTHER -> 122

\* s < t for str: lexicographic by code point, a proper prefix first
RECURSIVE StrLess(_, _)
StrLess(s, t) ==
    IF t = <<>> THEN FALSE
    ELSE IF s = <<>> THEN TRUE
    ELSE IF Head(s) = Head(t) THEN StrLess(Tail(s), Tail(t))
    ELSE Ord(Head(s)) < Ord(Head(t))

\* sorted(S) for a set of str
Sorted(S) ==
    [p \in 1..Cardinality(S) |->
        CHOOSE s \in S : Cardinality({t \in S : StrLess(t, s)}) = p - 1]

\* sep.join(parts)
RECURSIVE Join(_, _)
Join(sep, parts) ==
    IF parts = <<>> THEN <<>>
    ELSE IF Len(parts) = 1 THEN parts[1]
    ELSE parts[1] \o sep \o Join(sep, Tail(parts))

\* s.split(sep) for a one-character separator: always at least one part
RECURSIVE Split(_, _)
Split(s, sep) ==
    IF \A i \in 1..Len(s) : s[i] # sep THEN <<s>>
    ELSE LET i == CHOOSE k \in 1..Len(s) : s[k] = sep /\ \A m \in 1..(k - 1) : s[m] # sep
         IN <<SubSeq(s, 1, i - 1)>> \o Split(SubSeq(s, i + 1, Len(s)), sep)

\* s.lower()
Lower(s) ==
    [i \in 1..Len(s) |-> CASE s[i] = "A" -> "a" [] s[i] = "B" -> "b" [] OTHER -> s[i]]

\* s.strip(): the blanks at both ends removed
RECURSIVE Strip(_)
Strip(s) ==
    IF s = <<>> THEN s
    ELSE IF Head(s) = " " THEN Strip(Tail(s))
    ELSE IF s[Len(s)] = " " THEN Strip(SubSeq(s, 1, Len(s) - 1))
    ELSE s

Digits == <<"0", "1", "2", "3">>

\* int(s) for a str of the decimal digits 0..3
RECURSIVE PyInt(_)
PyInt(s) ==
    IF Len(s) = 1 THEN (CHOOSE d \in 1..Len(Digits) : Digits[d] = s[1]) - 1
    ELSE 10 * PyInt(SubSeq(s, 1, Len(s) - 1)) + PyInt(<<s[Len(s)]>>)

\* str(v) of a JSON value: a str is itself, an int 0..3 its decimal digit
PyStr(v) == IF v.t = "str" THEN v.s ELSE <<Digits[v.n + 1]>>

-----------------------------------------------------------------------------
(* metadata.py *)

\* _expand_ids: an int is itself, a list of two is the inclusive range, any
\* other entry is dropped.
_expand_idsMutant(id_entry) ==
    IF id_entry.t = "int" THEN {id_entry.n}
    ELSE IF Len(id_entry.l) = 2 THEN id_entry.l[1]..(id_entry.l[2] - 1)
    ELSE {}

_expand_ids(id_entry) ==
    IF id_entry.t = "int" THEN {id_entry.n}
    ELSE IF Len(id_entry.l) = 2 THEN id_entry.l[1]..id_entry.l[2]
    ELSE {}

\* cats_by_id of apply_metadata: the names of the categories whose ids
\* reach tid; a category with no or an empty name is skipped.
CatsById(meta, tid) ==
    LET cats == OptGet(meta.categories, <<>>)
    IN {cats[c].name[1] : c \in
          {c \in 1..Len(cats) :
              /\ cats[c].name # <<>>
              /\ cats[c].name[1] # <<>>
              /\ \E e \in 1..Len(OptGet(cats[c].ids, <<>>)) :
                     tid \in _expand_ids(cats[c].ids[1][e])}}

\* props_by_id of apply_metadata: {int(tid): {k: str(v)}}, a dict
\* comprehension over the document order, so of two keys that are the same
\* number the later one wins.
PropsByIdKeys(meta) ==
    LET pm == OptGet(meta.properties, <<>>)
    IN {PyInt(pm[e].tid) : e \in 1..Len(pm)}

PropsById(meta, tid) ==
    LET pm == OptGet(meta.properties, <<>>)
        e == CHOOSE e \in 1..Len(pm) :
                 /\ PyInt(pm[e].tid) = tid
                 /\ \A f \in 1..Len(pm) : PyInt(pm[f].tid) = tid => f <= e
    IN [k \in DOMAIN pm[e].props |-> PyStr(pm[e].props[k])]

\* The category value apply_metadata writes
CategoryValueMutant(names, old) ==
    IF "category" \in DOMAIN old /\ old["category"] # <<>>
    THEN old["category"] \o <<",">> \o Join(<<",">>, Sorted(names))
    ELSE Join(<<",">>, Sorted(names))

CategoryValue(names, old) == Join(<<",">>, Sorted(names))

\* The tile loop with the property set replaced instead of updated
ApplyToTileMutant(meta, tile, d) ==
    LET d1 == IF tile.local_id \in PropsByIdKeys(meta)
              THEN PropsById(meta, tile.local_id)
              ELSE d
        names == CatsById(meta, tile.local_id)
    IN IF names # {}
       THEN DictUpdate(d1, [k \in {"category"} |-> CategoryValue(names, d1)])
       ELSE d1

\* The body of "for tile in tileset.tiles" on the dict the tile refers to
ApplyToTile(meta, tile, d) ==
    LET d1 == IF tile.local_id \in PropsByIdKeys(meta)
              THEN DictUpdate(d, PropsById(meta, tile.local_id))
              ELSE d
        names == CatsById(meta, tile.local_id)
    IN IF names # {}
       THEN DictUpdate(d1, [k \in {"category"} |-> CategoryValue(names, d1)])
       ELSE d1

RECURSIVE ApplyToTiles(_, _, _)
ApplyToTiles(meta, tiles, h) ==
    IF tiles = <<>> THEN h
    ELSE LET tile == Head(tiles)
         IN ApplyToTiles(meta, Tail(tiles),
                [h EXCEPT ![tile.properties] = ApplyToTile(meta, tile, @)])

\* apply_metadata: the heap after the call (the cache itself is not
\* changed, only the dicts its tiles refer to).  md is the list of
\* the document's (tileset name, entry) items.
RECURSIVE apply_metadata(_, _, _)
apply_metadata(c, h, md) ==
    IF md = <<>> THEN h
    ELSE LET item == Head(md)
         IN IF item.name \notin DOMAIN c
            THEN apply_metadata(c, h, Tail(md))
            ELSE apply_metadata(c, ApplyToTiles(item.meta, c[item.name].tiles, h),
                                Tail(md))

-----------------------------------------------------------------------------
(* palette_model.py *)

\* PaletteState as constructed: no tileset, page 0, no filter
PaletteState(page_size) ==
    [tileset_name |-> <<>>, page_size |-> page_size, page_index |-> 0,
     filter_fn |-> <<>>]

\* The filter constructors: each returns a predicate on tiles, here the
\* record of what the closure captured
property_filter(key, value) == [kind |-> "property", key |-> key, value |-> value]

has_properties_filter == [kind |-> "has_properties", key |-> "", value |-> <<>>]

animated_filter == [kind |-> "animated", key |-> "", value |-> <<>>]

category_filter(category) ==
    [kind |-> "category", key |-> "category", value |-> <<Lower(category)>>]

\* filter_fn(tile) for a tile whose properties are the dict d
FilterPasses(f, tile, d) ==
    CASE f.kind = "property" ->
             IF f.key \notin DOMAIN d THEN FALSE
             ELSE IF f.value = <<>> THEN TRUE
             ELSE d[f.key] = f.value[1]
      [] f.kind = "has_properties" -> DOMAIN d # {}
      [] f.kind = "animated" -> tile.is_animated
      [] f.kind = "category" ->
             LET cat_value == DictGet(d, "category", <<>>)
                 parts == Split(cat_value, ",")
             IN IF cat_value = <<>> THEN FALSE
                ELSE \E n \in 1..Len(parts) : Lower(Strip(parts[n])) = f.value[1]

\* PaletteModel.active_tiles
active_tiles(c, h, st) ==
    IF st.tileset_name = <<>> \/ st.tileset_name[1] = "" THEN <<>>
    ELSE LET tiles == c[st.tileset_name[1]].tiles
         IN IF st.filter_fn # <<>>
            THEN SelectSeq(tiles, LAMBDA t : FilterPasses(st.filter_fn[1], t, h[t.properties]))
            ELSE tiles

\* PaletteModel.page_count
page_countMutant(c, h, st) ==
    IF active_tiles(c, h, st) = <<>> THEN 0
    ELSE Len(active_tiles(c, h, st)) \div st.page_size

page_count(c, h, st) ==
    IF active_tiles(c, h, st) = <<>> THEN 0
    ELSE (Len(active_tiles(c, h, st)) + st.page_size - 1) \div st.page_size

\* PaletteModel.page_tiles: active_tiles[start:end]
page_tiles(c, h, st) ==
    LET start == st.page_index * st.page_size
        all == active_tiles(c, h, st)
    IN SubSeq(all, start + 1, Min(start + st.page_size, Len(all)))

\* PaletteModel.set_tileset, for a name that is in tilesets
set_tileset(st, name) == [st EXCEPT !.tileset_name = <<name>>, !.page_index = 0]

\* PaletteModel.set_filter
set_filter(st, predicate) == [st EXCEPT !.filter_fn = predicate, !.page_index = 0]

\* PaletteModel.set_page
set_page(c, h, st, index) ==
    [st EXCEPT !.page_index = Max(0, Min(index, page_count(c, h, st) - 1))]

\* PaletteModel.next_page
next_pageMutant(c, h, st) ==
    IF st.page_index < page_count(c, h, st)
    THEN [st EXCEPT !.page_index = @ + 1]
    ELSE st

next_page(c, h, st) ==
    IF st.page_index + 1 < page_count(c, h, st)
    THEN [st EXCEPT !.page_index = @ + 1]
    ELSE st

\* PaletteModel.prev_page
prev_page(st) ==
    IF st.page_index > 0 THEN [st EXCEPT !.page_index = @ - 1] ELSE st

-----------------------------------------------------------------------------
(* palette_ui.py *)

\* PaletteUIConfig, of which the grid's shape varies
PaletteUIConfig(grid_cols, grid_rows) ==
    [tile_render_size |-> 48, grid_cols |-> grid_cols, grid_rows |-> grid_rows,
     padding |-> 8, gutter |-> 4]

\* pygame.Rect and Rect.collidepoint: the right and bottom edges are outside
Rect(x, y, w, h) == [x |-> x, y |-> y, w |-> w, h |-> h]

collidepoint(r, pos) ==
    /\ r.x <= pos[1] /\ pos[1] < r.x + r.w
    /\ r.y <= pos[2] /\ pos[2] < r.y + r.h

\* The active filter's key for "no filter"
NoneKey == <<"n", "o", "n", "e">>

\* The rectangles __init__ lays out
_tileset_button(p) ==
    Rect(p.rect.x + p.config.padding, p.rect.y + p.config.padding,
         p.rect.w - 2 * p.config.padding, 24)

_dropdown_rect(p) ==
    Rect(p.rect.x + p.config.padding,
         p.rect.y + p.config.padding + _tileset_button(p).h + p.config.gutter, 140, 24)

_prev_button(p) ==
    Rect(p.rect.x + p.config.padding, p.rect.y + p.rect.h - p.config.padding - 24, 50, 24)

_next_button(p) ==
    Rect(p.rect.x + p.rect.w - p.config.padding - 50,
         p.rect.y + p.rect.h - p.config.padding - 24, 50, 24)

\* PalettePanel.__init__: the panel, and the model's state with the page
\* size set to the grid's capacity
PalettePanel(rect, has_menu, config) ==
    [rect |-> rect, config |-> config, on_tileset_menu |-> has_menu,
     selected |-> <<>>, hovered |-> <<>>, drag_payload |-> <<>>,
     _active_filter |-> NoneKey, _categories |-> <<>>,
     _dropdown_expanded |-> FALSE, _dropdown_scroll |-> 0, _max_visible_items |-> 10]

PanelPageSize(st, config) == [st EXCEPT !.page_size = config.grid_cols * config.grid_rows]

_grid_origin_y(p) ==
    p.rect.y + p.config.padding + _tileset_button(p).h + p.config.gutter
        + _dropdown_rect(p).h + p.config.gutter

\* The cell of index idx
GridCell(p, idx) ==
    LET col == idx % p.config.grid_cols
        row == idx \div p.config.grid_cols
        step == p.config.tile_render_size + p.config.gutter
    IN Rect(p.rect.x + p.config.padding + col * step, _grid_origin_y(p) + row * step,
            p.config.tile_render_size, p.config.tile_render_size)

\* _tile_index_at: the first cell, in row-major order, that holds pos
_tile_index_at(p, pos) ==
    LET hits == {idx \in 0..(p.config.grid_rows * p.config.grid_cols - 1) :
                    collidepoint(GridCell(p, idx), pos)}
    IN IF hits = {} THEN <<>>
       ELSE <<CHOOSE idx \in hits : \A other \in hits : idx <= other>>

\* ["none"] + self._categories, and its visible slice
DropdownItems(p) == <<NoneKey>> \o p._categories

DropdownVisible(p) ==
    SubSeq(DropdownItems(p), p._dropdown_scroll + 1,
           Min(p._dropdown_scroll + p._max_visible_items, Len(DropdownItems(p))))

DropdownListRect(p) ==
    Rect(_dropdown_rect(p).x, _dropdown_rect(p).y + _dropdown_rect(p).h + p.config.gutter,
         _dropdown_rect(p).w, _dropdown_rect(p).h * Len(DropdownVisible(p)))

\* _dropdown_item_at
_dropdown_item_at(p, pos) ==
    IF ~p._dropdown_expanded THEN <<>>
    ELSE IF ~collidepoint(DropdownListRect(p), pos) THEN <<>>
    ELSE LET idx == (pos[2] - DropdownListRect(p).y) \div _dropdown_rect(p).h
         IN IF 0 <= idx /\ idx < Len(DropdownVisible(p))
            THEN <<DropdownVisible(p)[idx + 1]>>
            ELSE <<>>

\* _scroll_dropdown
_scroll_dropdown(p, delta) ==
    LET max_start == Max(0, Len(DropdownItems(p)) - p._max_visible_items)
    IN [p EXCEPT !._dropdown_scroll = Min(Max(0, @ + delta), max_start)]

\* The operations below return the panel and the model's state after them
PanelAndState(p, st) == [panel |-> p, state |-> st]

\* _apply_filter with the selection kept
_apply_filterMutant(p, st, key) ==
    IF key = NoneKey
    THEN PanelAndState([p EXCEPT !._active_filter = key, !.hovered = <<>>,
                                 !.drag_payload = <<>>],
                       set_filter(st, <<>>))
    ELSE IF \E n \in 1..Len(p._categories) : p._categories[n] = key
    THEN PanelAndState([p EXCEPT !._active_filter = key, !.hovered = <<>>,
                                 !.drag_payload = <<>>],
                       set_filter(st, <<category_filter(key)>>))
    ELSE PanelAndState(p, st)

\* _apply_filter: "none" clears the model's filter, a known category sets
\* its filter, any other key is ignored
_apply_filter(p, st, key) ==
    IF key = NoneKey
    THEN PanelAndState([p EXCEPT !._active_filter = key, !.hovered = <<>>,
                                 !.selected = <<>>, !.drag_payload = <<>>],
                       set_filter(st, <<>>))
    ELSE IF \E n \in 1..Len(p._categories) : p._categories[n] = key
    THEN PanelAndState([p EXCEPT !._active_filter = key, !.hovered = <<>>,
                                 !.selected = <<>>, !.drag_payload = <<>>],
                       set_filter(st, <<category_filter(key)>>))
    ELSE PanelAndState(p, st)

\* The categories _ensure_categories collects from the tiles of a tileset:
\* the stripped, non-empty parts of every non-empty "category" value
TileCategories(c, h, name) ==
    LET values == {DictGet(h[c[name].tiles[n].properties], "category", <<>>) :
                      n \in 1..Len(c[name].tiles)}
        parts == UNION {{Split(v, ",")[m] : m \in 1..Len(Split(v, ","))} :
                           v \in values \ {<<>>}}
    IN {Strip(part) : part \in parts} \ {<<>>}

\* _ensure_categories
_ensure_categories(p, c, h, st) ==
    IF st.tileset_name = <<>> \/ st.tileset_name[1] = "" THEN p
    ELSE LET categories == Sorted(TileCategories(c, h, st.tileset_name[1]))
         IN IF categories = p._categories THEN p
            ELSE [p EXCEPT
                    !._categories = categories,
                    !._active_filter =
                        IF @ = NoneKey \/ \E n \in 1..Len(categories) : categories[n] = @
                        THEN @ ELSE NoneKey,
                    !._dropdown_scroll = 0]

\* draw: of what it does, _ensure_categories alone changes the panel
draw(p, c, h, st) == _ensure_categories(p, c, h, st)

\* _cycle_category: items.index is the first position of the active filter
_cycle_category(p, st, delta) ==
    LET items == DropdownItems(p)
        found == {n \in 1..Len(items) : items[n] = p._active_filter}
        idx == IF found = {} THEN 0
               ELSE (CHOOSE n \in found : \A m \in found : n <= m) - 1
        new_idx == (idx + delta) % Len(items)
    IN _apply_filter(p, st, items[new_idx + 1])

\* The selection a click on a tile makes, without the stamp mode
SelectTileMutant(p, tile, shift) ==
    [p EXCEPT !.selected = <<tile>>,
              !.drag_payload = <<[tileset_name |-> tile.tileset_name,
                                  local_id |-> tile.local_id,
                                  surface |-> tile.surface,
                                  stamp_mode |-> FALSE]>>]

\* self.selected = tile and the DragPayload built from it; shift is
\* pygame.key.get_mods() & KMOD_SHIFT at the click
SelectTile(p, tile, shift) ==
    [p EXCEPT !.selected = <<tile>>,
              !.drag_payload = <<[tileset_name |-> tile.tileset_name,
                                  local_id |-> tile.local_id,
                                  surface |-> tile.surface,
                                  stamp_mode |-> shift]>>]

\* handle_event, MOUSEBUTTONDOWN with button 1
LeftButtonDown(p, c, h, st, ev) ==
    IF collidepoint(_tileset_button(p), ev.pos) /\ p.on_tileset_menu
    THEN PanelAndState(p, st)
    ELSE IF collidepoint(_dropdown_rect(p), ev.pos)
    THEN PanelAndState([p EXCEPT !._dropdown_expanded = ~@], st)
    ELSE IF p._dropdown_expanded /\ _dropdown_item_at(p, ev.pos) # <<>>
    THEN LET got == _apply_filter(p, st, _dropdown_item_at(p, ev.pos)[1])
         IN PanelAndState([got.panel EXCEPT !._dropdown_expanded = FALSE], got.state)
    ELSE IF collidepoint(_prev_button(p), ev.pos)
    THEN PanelAndState(p, prev_page(st))
    ELSE IF collidepoint(_next_button(p), ev.pos)
    THEN PanelAndState(p, next_page(c, h, st))
    ELSE LET tile_index == _tile_index_at(p, ev.pos)
             tiles == page_tiles(c, h, st)
         IN IF tile_index # <<>> /\ tile_index[1] < Len(tiles)
            THEN PanelAndState(SelectTile(p, tiles[tile_index[1] + 1], ev.shift), st)
            ELSE PanelAndState(p, st)

\* The wheel with its directions exchanged
WheelMutant(p, c, h, st, ev) ==
    IF ev.button = 4
    THEN IF p._dropdown_expanded THEN PanelAndState(_scroll_dropdown(p, -1), st)
         ELSE PanelAndState(p, next_page(c, h, st))
    ELSE IF p._dropdown_expanded THEN PanelAndState(_scroll_dropdown(p, 1), st)
         ELSE PanelAndState(p, prev_page(st))

\* handle_event, MOUSEBUTTONDOWN with button 4 or 5: the wheel scrolls the
\* dropdown's list while it is expanded, and pages otherwise
Wheel(p, c, h, st, ev) ==
    IF ev.button = 4
    THEN IF p._dropdown_expanded THEN PanelAndState(_scroll_dropdown(p, -1), st)
         ELSE PanelAndState(p, prev_page(st))
    ELSE IF p._dropdown_expanded THEN PanelAndState(_scroll_dropdown(p, 1), st)
         ELSE PanelAndState(p, next_page(c, h, st))

\* handle_event, KEYDOWN
KeyDown(p, c, h, st, ev) ==
    CASE ev.key = "K_PAGEUP" -> PanelAndState(p, prev_page(st))
      [] ev.key = "K_PAGEDOWN" -> PanelAndState(p, next_page(c, h, st))
      [] ev.key = "K_ESCAPE" -> _apply_filter(p, st, NoneKey)
      [] ev.key = "K_COMMA" -> _cycle_category(p, st, -1)
      [] ev.key = "K_PERIOD" -> _cycle_category(p, st, 1)
      [] OTHER -> PanelAndState(p, st)

\* PalettePanel.handle_event
handle_event(p, c, h, st, ev) ==
    CASE ev.type = "MOUSEBUTTONDOWN" ->
             IF ev.button = 1 THEN LeftButtonDown(p, c, h, st, ev)
             ELSE IF ev.button \in {4, 5} THEN Wheel(p, c, h, st, ev)
             ELSE PanelAndState(p, st)
      [] ev.type = "MOUSEBUTTONUP" ->
             IF ev.button \in {1, 3} THEN PanelAndState([p EXCEPT !.drag_payload = <<>>], st)
             ELSE PanelAndState(p, st)
      [] ev.type = "MOUSEMOTION" ->
             PanelAndState([p EXCEPT !.hovered = _tile_index_at(p, ev.pos)], st)
      [] ev.type = "KEYDOWN" -> KeyDown(p, c, h, st, ev)
      [] OTHER -> PanelAndState(p, st)

-----------------------------------------------------------------------------
(* tmx_roundtrip.py *)

\* A TMX tree is its root <map>: [loadable, children], the children being
\* elements [tag, props], where props lists the <property> children
\* [name, value] of a <properties> element.  loadable stands for all of the
\* map outside its properties that the map loader needs.

\* ElementTree's _escape_attrib, which tree.write applies to every
\* attribute value
EscapeAttrib(s) ==
    LET esc(c) == CASE c = "&" -> <<"&", "a", "m", "p", ";">>
                    [] c = "<" -> <<"&", "l", "t", ";">>
                    [] c = "\"" -> <<"&", "q", "u", "o", "t", ";">>
                    [] OTHER -> <<c>>
        F[i \in 0..Len(s)] == IF i = 0 THEN <<>> ELSE F[i - 1] \o esc(s[i])
    IN F[Len(s)]

\* The XML parser's reading of an attribute value: entity references are
\* replaced by their characters
RECURSIVE UnescapeAttrib(_)
UnescapeAttrib(s) ==
    IF s = <<>> THEN <<>>
    ELSE IF Head(s) # "&" THEN <<Head(s)>> \o UnescapeAttrib(Tail(s))
    ELSE LET e == CHOOSE i \in 1..Len(s) : s[i] = ";" /\ \A j \in 1..(i - 1) : s[j] # ";"
             entity == SubSeq(s, 2, e - 1)
             c == CASE entity = <<"a", "m", "p">> -> "&"
                    [] entity = <<"l", "t">> -> "<"
                    [] entity = <<"q", "u", "o", "t">> -> "\""
                    [] OTHER -> "?"
         IN <<c>> \o UnescapeAttrib(SubSeq(s, e + 1, Len(s)))

\* Every attribute of the <property> elements, written (escaped) or parsed
\* (unescaped)
MapAttribs(tree, writing) ==
    [tree EXCEPT !.children =
        [n \in 1..Len(tree.children) |->
            [tree.children[n] EXCEPT !.props =
                [m \in 1..Len(tree.children[n].props) |->
                    [name |-> IF tree.children[n].props[m].name = <<>> THEN <<>>
                              ELSE <<IF writing THEN EscapeAttrib(tree.children[n].props[m].name[1])
                                    ELSE UnescapeAttrib(tree.children[n].props[m].name[1])>>,
                     value |-> IF tree.children[n].props[m].value = <<>> THEN <<>>
                               ELSE <<IF writing THEN EscapeAttrib(tree.children[n].props[m].value[1])
                                     ELSE UnescapeAttrib(tree.children[n].props[m].value[1])>>]]]]]

\* tree.write(output, ...): the file's text, attribute values escaped
TreeWrite(tree) == MapAttribs(tree, TRUE)

\* ET.parse(input_path).getroot()
TreeParse(file) == MapAttribs(file, FALSE)

\* root.find("properties"): the index of the first such child, 0 for None
FindProperties(root) ==
    IF \E n \in 1..Len(root.children) : root.children[n].tag = "properties"
    THEN CHOOSE n \in 1..Len(root.children) :
             /\ root.children[n].tag = "properties"
             /\ \A m \in 1..(n - 1) : root.children[m].tag # "properties"
    ELSE 0

\* _ensure_properties_element: the root, with a <properties> child appended
\* when it had none
_ensure_properties_element(root) ==
    IF FindProperties(root) # 0 THEN root
    ELSE [root EXCEPT !.children = Append(@, [tag |-> "properties", props |-> <<>>])]

\* set_property: the value of the first <property> named key is replaced; a
\* new <property> is appended when there is none
set_propertyMutant(root, key, value) ==
    LET r == _ensure_properties_element(root)
        p == FindProperties(r)
    IN [r EXCEPT !.children[p].props = Append(@, [name |-> <<key>>, value |-> <<value>>])]

set_property(root, key, value) ==
    LET r == _ensure_properties_element(root)
        p == FindProperties(r)
        props == r.children[p].props
        hits == {m \in 1..Len(props) : props[m].name = <<key>>}
    IN IF hits # {}
       THEN LET first == CHOOSE m \in hits : \A n \in hits : m <= n
            IN [r EXCEPT !.children[p].props[first].value = <<value>>]
       ELSE [r EXCEPT !.children[p].props =
                Append(@, [name |-> <<key>>, value |-> <<value>>])]

\* pathlib: a path is [absolute, parts]
PathParent(path) == [path EXCEPT !.parts = SubSeq(@, 1, Len(@) - 1)]

PathJoin(dir, path) == IF path.absolute THEN path ELSE [dir EXCEPT !.parts = @ \o path.parts]

\* The file round_trip writes: output_path, taken relative to the input's
\* directory when it is relative, or the input itself when there is none
OutputOf(args) ==
    IF args.output_path # <<>> /\ ~args.output_path[1].absolute
    THEN PathJoin(PathParent(args.input_path), args.output_path[1])
    ELSE IF args.output_path # <<>> THEN args.output_path[1]
    ELSE args.input_path

\* The map loader (pytmx.TiledMap) on a TMX file: it parses the file and
\* fails on a map it cannot load, else reads the <property> elements of the
\* map-level <properties> in document order into a dict, name -> value.
MapLoader(file) ==
    LET root == TreeParse(file)
        all == [n \in 1..Len(root.children) |->
                   IF root.children[n].tag = "properties" THEN root.children[n].props
                   ELSE <<>>]
        F[n \in 0..Len(all)] == IF n = 0 THEN <<>> ELSE F[n - 1] \o all[n]
        els == F[Len(all)]
        named == {m \in 1..Len(els) : els[m].name # <<>>}
        last(k) == CHOOSE m \in named :
                       els[m].name[1] = k /\ \A n \in named : els[n].name[1] = k => n <= m
    IN IF ~root.loadable THEN Raise("ValueError")
       ELSE [ok |-> TRUE, exc |-> "",
             properties |-> [k \in {els[m].name[1] : m \in named} |-> els[last(k)].value]]

\* round_trip without its validating reload: the path is returned whatever
\* the written file holds
round_tripMutant(files, args) ==
    LET root == TreeParse(files[args.input_path])
        tree == IF args.set_property # <<>>
                THEN set_property(root, args.set_property[1].key, args.set_property[1].value)
                ELSE root
        output == OutputOf(args)
    IN [parsed |-> root, tree |-> tree,
        files |-> (output :> TreeWrite(tree)) @@ files,
        result |-> [ok |-> TRUE, exc |-> "", returned |-> <<output>>]]

\* round_trip(input_path, output_path, transform), where transform is the
\* set_property of main when --set-property is given: the tree as parsed and
\* as transformed, the files on disk and the outcome
round_trip(files, args) ==
    LET root == TreeParse(files[args.input_path])
        tree == IF args.set_property # <<>>
                THEN set_property(root, args.set_property[1].key, args.set_property[1].value)
                ELSE root
        output == OutputOf(args)
        written == (output :> TreeWrite(tree)) @@ files
        check == MapLoader(written[output])
    IN [parsed |-> root, tree |-> tree, files |-> written,
        result |-> IF check.ok THEN [ok |-> TRUE, exc |-> "", returned |-> <<output>>]
                   ELSE [ok |-> FALSE, exc |-> check.exc, returned |-> <<>>]]

-----------------------------------------------------------------------------
(* load_from_json_manager.py *)

\* dict.setdefault(key, default): a key that is present keeps its value
setdefaultMutant(d, key, default) == (key :> default) @@ d

setdefault(d, key, default) == IF key \in DOMAIN d THEN d ELSE (key :> default) @@ d

\* get_skill_data(skill_name) of load_from_xml_manager: the Skill built for
\* that name
get_skill_data(skill_name) == [skill |-> skill_name]

\* The body of "for _class in classes.values()"
NormalizeClass(entry) ==
    LET c1 == setdefault(entry, "constitution", 0)
        c2 == setdefault(c1, "move", 0)
        s1 == setdefault(c2["stats_up"], "hp", <<>>)
        s2 == setdefault(s1, "def", <<>>)
        s3 == setdefault(s2, "res", <<>>)
        s4 == setdefault(s3, "str", <<>>)
        names == DictGet(c2, "skills", <<>>)
    IN ("skills" :> [n \in 1..Len(names) |-> get_skill_data(names[n])])
       @@ ("stats_up" :> s4) @@ c2

\* load_classes: _class["stats_up"] raises KeyError for an entry without
\* stats_up, which ends the call
load_classes(json) ==
    IF \E name \in DOMAIN json : "stats_up" \notin DOMAIN json[name]
    THEN Raise("KeyError")
    ELSE [ok |-> TRUE, exc |-> "",
          classes |-> [name \in DOMAIN json |-> NormalizeClass(json[name])]]

-----------------------------------------------------------------------------
(* Inputs: TSX files and metadata side-files *)

MaxTiles == 4      \* largest declared tilecount
MaxCols == 3       \* largest declared columns
MaxMargin == 1     \* largest declared margin
MaxSpacing == 1    \* largest declared spacing
MaxApply == 2      \* apply_metadata calls of one run

OptRange(lo, hi) == {<<>>} \cup {<<n>> : n \in lo..hi}

ImageNode(source, file) == [source |-> source, file |-> file, w |-> 4, h |-> 6]

OkImage == <<ImageNode(<<"tiles.png">>, "ok")>>

Prop(name, value) == [name |-> <<name>>, value |-> <<value>>]

TileNode(id, properties, image) ==
    [id |-> id, properties |-> properties, image |-> image, animation |-> FALSE]

Tsx(path, stem, present, wellformed, attrs, image, tiles) ==
    [path |-> path, stem |-> stem, exists |-> present, wellformed |-> wellformed,
     attrs |-> attrs, image |-> image, tiles |-> tiles]

Attrs(tilewidth, tileheight, tilecount, columns, margin, spacing) ==
    [name |-> <<>>, tilewidth |-> tilewidth, tileheight |-> tileheight,
     tilecount |-> tilecount, columns |-> columns, margin |-> margin,
     spacing |-> spacing]

\* Image-based tilesets of every declared geometry
GeometryInputs ==
    {Tsx("ts.tsx", "ts", TRUE, TRUE, Attrs(<<2>>, <<3>>, n, c, m, sp), OkImage, <<>>) :
        n \in OptRange(0, MaxTiles), c \in OptRange(0, MaxCols),
        m \in OptRange(0, MaxMargin), sp \in OptRange(0, MaxSpacing)}

\* Files that are missing, malformed, or lack attributes, sources or images
FailureImages ==
    {<<>>, <<ImageNode(<<>>, "ok")>>, <<ImageNode(<<"">>, "ok")>>,
     <<ImageNode(<<"tiles.png">>, "missing")>>,
     <<ImageNode(<<"tiles.png">>, "corrupt")>>, OkImage}

FailureTiles ==
    {<<>>} \cup
    {<<TileNode(id, <<>>, image)>> :
        id \in {<<>>, <<0>>},
        image \in {<<>>, <<ImageNode(<<>>, "ok")>>,
                   <<ImageNode(<<"t0.png">>, "missing")>>,
                   <<ImageNode(<<"t0.png">>, "ok")>>}}

FailureInputs ==
    {Tsx("ts.tsx", "ts", e, wf, Attrs(tw, <<3>>, <<2>>, <<2>>, <<>>, <<>>), image, tiles) :
        e \in BOOLEAN, wf \in BOOLEAN, tw \in {<<>>, <<2>>},
        image \in FailureImages, tiles \in FailureTiles}

\* Tilesets with <tile> elements carrying properties, for the overlay
PropsChoices ==
    {<<>>,
     << <<Prop("category", <<"a">>)>> >>,
     << <<Prop("k", <<"b">>), Prop("k", <<"a">>)>> >>}

MetaTileNodes ==
    {TileNode(<<id>>, properties, <<ImageNode(<<"t.png">>, "ok")>>) :
        id \in 0..1, properties \in PropsChoices}

MetaTileLists ==
    {<<>>} \cup {<<a>> : a \in MetaTileNodes}
           \cup {<<a, b>> : a \in MetaTileNodes, b \in MetaTileNodes}

MetaInputs ==
    {Tsx("ts.tsx", "ts", TRUE, TRUE, Attrs(<<2>>, <<3>>, <<3>>, <<2>>, <<>>, <<>>),
         image, tiles) :
        image \in {<<>>, OkImage}, tiles \in MetaTileLists}

\* A second tileset of the cache, which no side-file names
OtherTsx ==
    Tsx("other.tsx", "other", TRUE, TRUE, Attrs(<<2>>, <<3>>, <<2>>, <<1>>, <<>>, <<>>),
        OkImage, <<TileNode(<<1>>, << <<Prop("category", <<"b">>)>> >>, <<>>)>>)

IntId(n) == [t |-> "int", n |-> n, l |-> <<>>]

ListId(l) == [t |-> "list", n |-> 0, l |-> l]

JStr(s) == [t |-> "str", s |-> s, n |-> 0]

JInt(n) == [t |-> "int", s |-> <<>>, n |-> n]

CatNames == {<<>>, << <<>> >>, << <<"a">> >>, << <<"b">> >>, << <<"a", ",", "b">> >>}

IdEntries == {IntId(1), ListId(<<0, 1>>), ListId(<<1, 2>>), ListId(<<2, 1>>), ListId(<<0>>)}

Cat(name, ids) == [name |-> name, ids |-> ids]

FirstCats == {Cat(name, << <<e>> >>) : name \in CatNames, e \in IdEntries}

SecondCats == {Cat(<< <<"b">> >>, << <<ListId(<<1, 1>>), IntId(2)>> >>),
               Cat(<< <<"a">> >>, <<>>)}

CatLists ==
    {<<>>, << <<>> >>} \cup {<< <<c>> >> : c \in FirstCats}
        \cup {<< <<c, d>> >> : c \in FirstCats, d \in SecondCats}

PropEntry(tid, props) == [tid |-> tid, props |-> props]

PropLists ==
    {<<>>,
     << <<PropEntry(<<"1">>, [k \in {"k"} |-> JStr(<<"a">>)])>> >>,
     << <<PropEntry(<<"1">>, [k \in {"k", "category"} |->
                                 IF k = "k" THEN JInt(2) ELSE JStr(<<"b">>)]),
          PropEntry(<<"0", "1">>, [k \in {"k"} |-> JStr(<<"b">>)])>> >>}

Item(name, meta) == [name |-> name, meta |-> meta]

Meta(categories, properties) == [categories |-> categories, properties |-> properties]

\* Side-file documents: an entry for the loaded tileset "ts", alone or after
\* an entry for a tileset that is not in the cache
Metas ==
    {<<Item("ts", Meta(c, p))>> : c \in CatLists, p \in PropLists}
    \cup {<<Item("zz", Meta(c, <<>>)), Item("ts", Meta(<<>>, p))>> :
             c \in {<< <<Cat(<< <<"a">> >>, << <<IntId(1)>> >>)>> >>}, p \in PropLists}

-----------------------------------------------------------------------------
(* The tileset pipeline: load_tilesets, then apply_metadata *)

InitLoad ==
    /\ pc = "start"
    /\ tsx_paths \in {<<t>> : t \in GeometryInputs \cup FailureInputs}
    /\ cache = EmptyCache
    /\ heap = EmptyHeap
    /\ load_exc = ""
    /\ metadata = <<>>
    /\ n_applied = 0
    /\ state = PaletteState(25)
    /\ TmxIdle

InitMeta ==
    /\ pc = "start"
    /\ tsx_paths \in {<<t, OtherTsx>> : t \in MetaInputs}
    /\ cache = EmptyCache
    /\ heap = EmptyHeap
    /\ load_exc = ""
    /\ metadata \in Metas
    /\ n_applied = 0
    /\ state = PaletteState(25)
    /\ TmxIdle

\* cache = load_tilesets(tsx_paths)
Load ==
    /\ pc = "start"
    /\ LET got == load_tilesets(tsx_paths)
       IN IF got.ok
          THEN /\ pc' = "loaded"
               /\ cache' = got.cache
               /\ heap' = got.heap
               /\ load_exc' = ""
          ELSE /\ pc' = "failed"
               /\ load_exc' = got.exc
               /\ UNCHANGED <<cache, heap>>
    /\ UNCHANGED <<tsx_paths, metadata, n_applied, state>>
    /\ UnchangedTmx

\* apply_metadata(cache, metadata)
ApplyMetadata ==
    /\ pc = "loaded"
    /\ n_applied < MaxApply
    /\ heap' = apply_metadata(cache, heap, metadata)
    /\ n_applied' = n_applied + 1
    /\ UNCHANGED <<pc, tsx_paths, cache, load_exc, metadata, state>>
    /\ UnchangedTmx

NextLoad == Load

SpecLoad == InitLoad /\ [][NextLoad]_vars

NextMeta == Load \/ ApplyMetadata

SpecMeta == InitMeta /\ [][NextMeta]_vars

-----------------------------------------------------------------------------
(* Properties of the tileset pipeline *)

TsxName(tsx) == OptGet(tsx.attrs.name, tsx.stem)

\* The file a cache entry was loaded from: the last path of that name
SourceOf(name) ==
    tsx_paths[CHOOSE p \in 1..Len(tsx_paths) :
                  /\ TsxName(tsx_paths[p]) = name
                  /\ \A q \in 1..Len(tsx_paths) : TsxName(tsx_paths[q]) = name => q <= p]

\* The dict a tile entry refers to
PropertiesOf(tile) == heap[tile.properties]

\* C3: in an image-based tileset declaring C >= 1 columns (1 when the
\* attribute is absent), tile size (tile_w, tile_h), margin and spacing, the
\* entry of local id i is the i-th entry and is sliced from the rectangle of
\* size (tile_w, tile_h) whose top-left pixel is
\* (margin + (i % C) * (tile_w + spacing), margin + (i // C) * (tile_h + spacing)).
C3_SliceOffsets ==
    pc = "loaded" =>
        \A name \in DOMAIN cache :
            LET a == SourceOf(name).attrs
                C == OptGet(a.columns, 1)
                tile_w == a.tilewidth[1]
                tile_h == a.tileheight[1]
                margin == OptGet(a.margin, 0)
                spacing == OptGet(a.spacing, 0)
                tiles == cache[name].tiles
            IN (SourceOf(name).image # <<>> /\ C >= 1) =>
                   \A n \in 1..Len(tiles) :
                       LET i == tiles[n].local_id
                       IN /\ i = n - 1
                          /\ tiles[n].surface.rect =
                                 [x |-> margin + (i % C) * (tile_w + spacing),
                                  y |-> margin + (i \div C) * (tile_h + spacing),
                                  w |-> tile_w, h |-> tile_h]

\* C3 witness: a loaded 2-column tileset with margin 1 and spacing 1 whose
\* tile 3 (column 1, row 1) has been sliced.
C3_Witness ==
    /\ pc = "loaded"
    /\ "ts" \in DOMAIN cache
    /\ SourceOf("ts").attrs.columns = <<2>>
    /\ SourceOf("ts").attrs.margin = <<1>>
    /\ SourceOf("ts").attrs.spacing = <<1>>
    /\ \E n \in 1..Len(cache["ts"].tiles) :
           /\ cache["ts"].tiles[n].local_id = 3
           /\ cache["ts"].tiles[n].surface.rect.x = 4
           /\ cache["ts"].tiles[n].surface.rect.y = 5

\* The tileset image of a file lacks its source attribute / its file
ImageSourceMissing(tsx) == tsx.image # <<>> /\ OptGet(tsx.image[1].source, "") = ""

ImageFileMissing(tsx) ==
    \/ /\ tsx.image # <<>>
       /\ OptGet(tsx.image[1].source, "") # ""
       /\ tsx.image[1].file = "missing"
    \/ /\ tsx.image = <<>>
       /\ \E j \in CollectionNodes(tsx) : tsx.tiles[j].image[1].file = "missing"

\* The file is read and declares its tile size, so that no failure other
\* than the one looked at comes first
Readable(tsx) ==
    /\ tsx.exists
    /\ tsx.wellformed
    /\ tsx.attrs.tilewidth # <<>>
    /\ tsx.attrs.tileheight # <<>>

\* C7: every load failure of load_tileset - a missing TSX file, malformed
\* TSX XML, a missing image source attribute, a missing image file - raises
\* TilesetLoadError and no other exception type.
C7_LoadFailuresRaiseTilesetLoadError ==
    \A p \in 1..Len(tsx_paths) :
        LET tsx == tsx_paths[p]
        IN (/\ pc = "failed"
            /\ \/ ~tsx.exists
               \/ tsx.exists /\ ~tsx.wellformed
               \/ Readable(tsx) /\ ImageSourceMissing(tsx)
               \/ Readable(tsx) /\ ImageFileMissing(tsx))
           => load_exc = "TilesetLoadError"

\* C7, the failures other than the missing TSX file: each of them does end
\* load_tileset with TilesetLoadError.
C7_FailuresOfAnExistingFile ==
    \A p \in 1..Len(tsx_paths) :
        LET tsx == tsx_paths[p]
        IN (\/ tsx.exists /\ ~tsx.wellformed
            \/ Readable(tsx) /\ ImageSourceMissing(tsx)
            \/ Readable(tsx) /\ ImageFileMissing(tsx))
           => pc # "loaded" /\ (pc = "failed" => load_exc = "TilesetLoadError")

\* The comma-separated entries of a tile's "category" property
CategoryEntries(tile) ==
    IF "category" \in DOMAIN PropertiesOf(tile)
    THEN {Split(PropertiesOf(tile)["category"], ",")[n] :
              n \in 1..Len(Split(PropertiesOf(tile)["category"], ","))}
    ELSE {}

\* The (tileset, category name, a, b) of every range [a, b] that the ids of a
\* named category of the side-file hold, for the tilesets of the cache
NamedRanges ==
    {r \in UNION {UNION {{[tileset |-> metadata[m].name,
                           name |-> cat.name[1],
                           a |-> cat.ids[1][e].l[1],
                           b |-> cat.ids[1][e].l[2]] :
                             e \in {e \in 1..Len(OptGet(cat.ids, <<>>)) :
                                      cat.ids[1][e].t = "list" /\ Len(cat.ids[1][e].l) = 2}} :
                         cat \in {c \in {OptGet(metadata[m].meta.categories, <<>>)[n] :
                                           n \in 1..Len(OptGet(metadata[m].meta.categories, <<>>))} :
                                    c.name # <<>>}} :
                  m \in 1..Len(metadata)} :
        r.tileset \in DOMAIN cache}

Tagged(r) ==
    \A n \in 1..Len(cache[r.tileset].tiles) :
        cache[r.tileset].tiles[n].local_id \in r.a..r.b
            => r.name \in CategoryEntries(cache[r.tileset].tiles[n])

\* C4 as claimed: after apply_metadata, every tile with a local id in a
\* range [a, b] of a category has the category's name among the
\* comma-separated entries of its "category" property.
C4_RangeTagsTilesAnyName ==
    (pc = "loaded" /\ n_applied >= 1) => \A r \in NamedRanges : Tagged(r)

\* C4 as amended: the same for a category whose name is not empty and holds
\* no comma.
C4_RangeTagsTiles ==
    (pc = "loaded" /\ n_applied >= 1) =>
        \A r \in NamedRanges :
            (r.name # <<>> /\ \A n \in 1..Len(r.name) : r.name[n] # ",") => Tagged(r)

\* C4 witness: the range [0, 1] of category "a" has been applied to a
\* tileset that has tiles 0 and 1, and both carry the entry "a".
C4_Witness ==
    /\ pc = "loaded"
    /\ n_applied >= 1
    /\ \E r \in NamedRanges :
           /\ r.name = <<"a">> /\ r.a = 0 /\ r.b = 1
           /\ \A id \in 0..1 : \E n \in 1..Len(cache[r.tileset].tiles) :
                  /\ cache[r.tileset].tiles[n].local_id = id
                  /\ <<"a">> \in CategoryEntries(cache[r.tileset].tiles[n])

\* C5: applying the same metadata again leaves every tile's properties as
\* they were after the first application.
C5_ApplyIdempotent ==
    [][(pc = "loaded" /\ n_applied >= 1 /\ n_applied' = n_applied + 1)
           => (heap' = heap /\ cache' = cache)]_vars

\* C5 witness: the metadata has been applied twice to tiles it changed, one
\* of them already carrying a category from its TSX.
C5_Witness ==
    /\ pc = "loaded"
    /\ n_applied = 2
    /\ heap # load_tilesets(tsx_paths).heap
    /\ \E n \in 1..Len(cache["ts"].tiles) :
           /\ cache["ts"].tiles[n].properties \in DOMAIN load_tilesets(tsx_paths).heap
           /\ "category" \in DOMAIN load_tilesets(tsx_paths).heap[cache["ts"].tiles[n].properties]
           /\ Len(PropertiesOf(cache["ts"].tiles[n])["category"]) >= 3

\* C8: the entries of one local id refer to one property set, before and
\* after apply_metadata; as loaded, that set is the one parsed from the last
\* <tile> element of the id.
C8_OnePropertySetPerId ==
    pc = "loaded" =>
        \A name \in DOMAIN cache :
            LET tiles == cache[name].tiles
                nodes == SourceOf(name).tiles
            IN /\ \A i \in 1..Len(tiles) : tiles[i].properties \in DOMAIN heap
               /\ \A i \in 1..Len(tiles), j \in 1..Len(tiles) :
                      tiles[i].local_id = tiles[j].local_id
                          => /\ tiles[i].properties = tiles[j].properties
                             /\ PropertiesOf(tiles[i]) = PropertiesOf(tiles[j])
               /\ n_applied = 0 =>
                      \A i \in 1..Len(tiles), k \in 1..Len(nodes) :
                          (/\ OptGet(nodes[k].id, -1) = tiles[i].local_id
                           /\ \A m \in (k + 1)..Len(nodes) :
                                  OptGet(nodes[m].id, -1) # tiles[i].local_id)
                              => PropertiesOf(tiles[i]) = _parse_properties(nodes[k])

\* C8 witness: a collection tileset with two entries of one local id, whose
\* two <tile> elements differ in their properties, after apply_metadata has
\* written a category into the set they share.
C8_Witness ==
    /\ pc = "loaded"
    /\ n_applied >= 1
    /\ \E i \in 1..Len(cache["ts"].tiles), j \in 1..Len(cache["ts"].tiles) :
           /\ i # j
           /\ cache["ts"].tiles[i].local_id = cache["ts"].tiles[j].local_id
           /\ "category" \in DOMAIN PropertiesOf(cache["ts"].tiles[i])
           /\ PropertiesOf(cache["ts"].tiles[i]) #
                  load_tilesets(tsx_paths).heap[cache["ts"].tiles[i].properties]
    /\ \E k \in 1..Len(SourceOf("ts").tiles), m \in 1..Len(SourceOf("ts").tiles) :
           /\ k # m
           /\ SourceOf("ts").tiles[k].id = SourceOf("ts").tiles[m].id
           /\ SourceOf("ts").tiles[k].properties # SourceOf("ts").tiles[m].properties

\* The dicts as load_tilesets built them, before any apply_metadata
LoadedHeap == load_tilesets(tsx_paths).heap

\* Whether the side-file has an entry for a tileset name, and that entry
NamedInMetadata(name) == \E m \in 1..Len(metadata) : metadata[m].name = name

MetaFor(name) == metadata[CHOOSE m \in 1..Len(metadata) : metadata[m].name = name].meta

\* The tile ids the ids of any category of an entry reach
IdsInCategories(meta) ==
    LET cats == OptGet(meta.categories, <<>>)
    IN UNION {UNION {_expand_ids(cats[c].ids[1][e]) :
                        e \in 1..Len(OptGet(cats[c].ids, <<>>))} : c \in 1..Len(cats)}

\* The members of the properties section whose key denotes tile id tid
EntriesFor(meta, tid) ==
    {e \in 1..Len(OptGet(meta.properties, <<>>)) : PyInt(meta.properties[1][e].tid) = tid}

\* What C14 says of everything but the tiles the properties section names:
\* the cache is as loaded and no dict is added or removed (an entry for an
\* absent tileset is skipped), the tiles of a tileset without an entry keep
\* their property sets, and so does a tile of a named tileset whose id is in
\* neither section.
UnnamedUntouched ==
    /\ cache = load_tilesets(tsx_paths).cache
    /\ DOMAIN heap = DOMAIN LoadedHeap
    /\ \A name \in DOMAIN cache : \A n \in 1..Len(cache[name].tiles) :
           LET tile == cache[name].tiles[n]
           IN \/ /\ NamedInMetadata(name)
                 /\ \/ tile.local_id \in IdsInCategories(MetaFor(name))
                    \/ EntriesFor(MetaFor(name), tile.local_id) # {}
              \/ PropertiesOf(tile) = LoadedHeap[tile.properties]

\* C14: apply_metadata changes only what the metadata names.  An entry for
\* a tileset that is not in the cache is skipped, a tileset without an entry
\* is untouched, and in a named tileset a tile whose id is in neither
\* section keeps its property set.  For a tile the properties section names
\* (by the last member that denotes its id), every listed key holds the
\* listed value as a string and every other key is as it was; the key
\* "category" of a tile that a named category reaches belongs to the
\* categories section.
C14_OnlyNamedChanged ==
    (pc = "loaded" /\ n_applied >= 1) =>
        /\ UnnamedUntouched
        /\ \A name \in {x \in DOMAIN cache : NamedInMetadata(x)} :
               \A n \in 1..Len(cache[name].tiles) :
                   LET tile == cache[name].tiles[n]
                       pm == OptGet(MetaFor(name).properties, <<>>)
                       es == EntriesFor(MetaFor(name), tile.local_id)
                       last == CHOOSE e \in es : \A f \in es : f <= e
                       tagged == CatsById(MetaFor(name), tile.local_id) # {}
                       old == LoadedHeap[tile.properties]
                       new == PropertiesOf(tile)
                   IN es # {} =>
                          \A k \in DOMAIN old \cup DOMAIN new \cup DOMAIN pm[last].props :
                              \/ k = "category" /\ tagged /\ k \in DOMAIN new
                              \/ /\ k \in DOMAIN pm[last].props
                                 /\ k \in DOMAIN new
                                 /\ new[k] = PyStr(pm[last].props[k])
                              \/ /\ k \notin DOMAIN pm[last].props
                                 /\ k \in DOMAIN old /\ k \in DOMAIN new
                                 /\ new[k] = old[k]

\* C14 witness: a side-file with an entry for an absent tileset and an entry
\* for "ts" that lists k for tile 1 has been applied; tile 1 had a category
\* from its TSX and keeps it beside the new k, another tile of "ts" and the
\* tiles of "other" are as loaded.
C14_Witness ==
    /\ pc = "loaded"
    /\ n_applied >= 1
    /\ Len(metadata) = 2
    /\ metadata[1].name \notin DOMAIN cache
    /\ \E n \in 1..Len(cache["ts"].tiles) :
           LET tile == cache["ts"].tiles[n]
           IN /\ tile.local_id = 1
              /\ EntriesFor(MetaFor("ts"), 1) # {}
              /\ "category" \in DOMAIN LoadedHeap[tile.properties]
              /\ "k" \notin DOMAIN LoadedHeap[tile.properties]
              /\ "k" \in DOMAIN PropertiesOf(tile)
              /\ PropertiesOf(tile)["category"] = LoadedHeap[tile.properties]["category"]
    /\ \E n \in 1..Len(cache["ts"].tiles) :
           /\ cache["ts"].tiles[n].local_id = 2
           /\ PropertiesOf(cache["ts"].tiles[n]) = LoadedHeap[cache["ts"].tiles[n].properties]
    /\ \A n \in 1..Len(cache["other"].tiles) :
           PropertiesOf(cache["other"].tiles[n]) = LoadedHeap[cache["other"].tiles[n].properties]

-----------------------------------------------------------------------------
(* The palette: a PaletteModel over a loaded cache *)

MaxPageSize == 3   \* largest page size

AnimatedTileNode(id, properties) ==
    [id |-> id, properties |-> properties, image |-> <<>>, animation |-> TRUE]

\* Image-based tilesets of 1..MaxTiles tiles, bare or with properties,
\* categories and an animation declared in the TSX
PaletteInputs ==
    {Tsx("ts.tsx", "ts", TRUE, TRUE, Attrs(<<2>>, <<3>>, <<n>>, <<2>>, <<>>, <<>>),
         OkImage, tiles) :
        n \in 1..MaxTiles,
        tiles \in {<<>>,
                   <<TileNode(<<0>>, << <<Prop("category", <<"a", ",", " ", "B">>)>> >>, <<>>),
                     AnimatedTileNode(<<1>>, << <<Prop("k", <<"b">>)>> >>),
                     TileNode(<<2>>, << <<Prop("category", <<"b">>)>> >>, <<>>)>>}}

\* Side-files applied before the palette opens: none, or one that tags tiles
\* 1..3 with "a"
PaletteMetas ==
    {<<>>,
     <<Item("ts", Meta(<< <<Cat(<< <<"a">> >>, << <<ListId(<<1, 3>>)>> >>)>> >>, <<>>))>>}

\* The predicates handed to set_filter
Filters ==
    {<<>>, <<has_properties_filter>>, <<animated_filter>>,
     <<property_filter("k", <<>>)>>, <<property_filter("k", << <<"a">> >>)>>,
     <<category_filter(<<"a">>)>>, <<category_filter(<<"B">>)>>,
     <<category_filter(<<"a", "b">>)>>}

TilesetIdle ==
    /\ tsx_paths = <<>>
    /\ cache = EmptyCache
    /\ heap = EmptyHeap
    /\ load_exc = ""
    /\ metadata = <<>>
    /\ n_applied = 0

\* model = PaletteModel(cache, PaletteState(page_size=P)) over the cache of
\* load_tilesets and apply_metadata
InitPalette ==
    /\ pc = "palette"
    /\ tsx_paths \in {<<t, OtherTsx>> : t \in PaletteInputs}
    /\ metadata \in PaletteMetas
    /\ cache = load_tilesets(tsx_paths).cache
    /\ heap = apply_metadata(cache, load_tilesets(tsx_paths).heap, metadata)
    /\ load_exc = ""
    /\ n_applied = 1
    /\ state \in {PaletteState(P) : P \in 1..MaxPageSize}
    /\ TmxIdle

UnchangedTilesets ==
    /\ UNCHANGED <<pc, tsx_paths, cache, heap, load_exc, metadata, n_applied>>
    /\ UnchangedTmx

SetTileset ==
    /\ pc = "palette"
    /\ \E name \in DOMAIN cache : state' = set_tileset(state, name)
    /\ UnchangedTilesets

SetFilter ==
    /\ pc = "palette"
    /\ \E f \in Filters : state' = set_filter(state, f)
    /\ UnchangedTilesets

SetPage ==
    /\ pc = "palette"
    /\ \E index \in -1..(MaxTiles + 1) : state' = set_page(cache, heap, state, index)
    /\ UnchangedTilesets

NextPage ==
    /\ pc = "palette"
    /\ state' = next_page(cache, heap, state)
    /\ UnchangedTilesets

PrevPage ==
    /\ pc = "palette"
    /\ state' = prev_page(state)
    /\ UnchangedTilesets

NextPalette == SetTileset \/ SetFilter \/ SetPage \/ NextPage \/ PrevPage

SpecPalette == InitPalette /\ [][NextPalette]_vars

\* The number of tiles of the selected tileset that pass the active filter
FilteredTotal ==
    IF state.tileset_name = <<>> THEN 0
    ELSE Cardinality({n \in 1..Len(cache[state.tileset_name[1]].tiles) :
             state.filter_fn = <<>> \/
             FilterPasses(state.filter_fn[1], cache[state.tileset_name[1]].tiles[n],
                          PropertiesOf(cache[state.tileset_name[1]].tiles[n]))})

\* C1: page_count is ceil(T / P), the least n with n * P >= T, for the page
\* size P >= 1 and the number T >= 0 of filtered tiles.
C1_PageCountIsCeiling ==
    pc = "palette" =>
        LET n == page_count(cache, heap, state)
        IN /\ n >= 0
           /\ n * state.page_size >= FilteredTotal
           /\ (n - 1) * state.page_size < FilteredTotal

\* C1 witness: a filter is active, 3 tiles pass it, the page size is 2 and
\* page_count is 2.
C1_Witness ==
    /\ pc = "palette"
    /\ state.filter_fn # <<>>
    /\ FilteredTotal = 3
    /\ state.page_size = 2
    /\ page_count(cache, heap, state) = 2

\* C2 as claimed: page_index lies within [0, page_count - 1].
C2_PageIndexInRange ==
    pc = "palette" => state.page_index \in 0..(page_count(cache, heap, state) - 1)

\* C2 as amended: page_index lies within [0, page_count - 1] when a tile
\* passes the filter, and is 0 when none does (page_count is then 0).
C2_PageIndexInRangeOrZero ==
    pc = "palette" =>
        IF FilteredTotal >= 1
        THEN state.page_index \in 0..(page_count(cache, heap, state) - 1)
        ELSE state.page_index = 0 /\ page_count(cache, heap, state) = 0

\* C2 witness: paging has reached the last of at least three pages.
C2_Witness ==
    /\ pc = "palette"
    /\ page_count(cache, heap, state) >= 3
    /\ state.page_index = page_count(cache, heap, state) - 1
    /\ next_page(cache, heap, state) = state

-----------------------------------------------------------------------------
(* The TMX round trip: round_trip with --set-property, then a reload *)

MaxValueLen == 2   \* longest property value set

RECURSIVE StringsUpTo(_, _)
StringsUpTo(chars, n) ==
    IF n = 0 THEN {<<>>}
    ELSE StringsUpTo(chars, n - 1) \cup
         {Append(w, c) : w \in {x \in StringsUpTo(chars, n - 1) : Len(x) = n - 1}, c \in chars}

TmxKeys == {<<"a">>, <<"b">>, <<"&">>}

TmxValues == StringsUpTo({"a", "&", "\""}, MaxValueLen)

TmxProperty(name, value) == [name |-> name, value |-> <<value>>]

TmxPropertyChoices ==
    {TmxProperty(name, <<"a">>) : name \in {<<>>, << <<"a">> >>, << <<"b">> >>}}
    \cup {TmxProperty(<< <<"&">> >>, <<"<", "a">>)}

TmxPropertyLists ==
    {<<>>} \cup {<<x>> : x \in TmxPropertyChoices}
           \cup {<<x, y>> : x \in TmxPropertyChoices, y \in TmxPropertyChoices}

Layer == [tag |-> "layer", props |-> <<>>]

Properties(props) == [tag |-> "properties", props |-> props]

\* Maps without, with a leading and with a trailing <properties> element
TmxDocs ==
    {[loadable |-> l, children |-> ch] :
        l \in BOOLEAN,
        ch \in {<<Layer>>} \cup {<<Properties(ps), Layer>> : ps \in TmxPropertyLists}
                           \cup {<<Layer, Properties(ps)>> : ps \in TmxPropertyLists}}

InputPath == [absolute |-> FALSE, parts |-> <<"maps", "map.tmx">>]

OutputPaths ==
    {<<>>, <<[absolute |-> FALSE, parts |-> <<"copy.tmx">>]>>,
     <<[absolute |-> TRUE, parts |-> <<"tmp", "copy.tmx">>]>>}

InitTmx ==
    /\ pc = "tmx"
    /\ TilesetIdle
    /\ state = PaletteState(25)
    /\ \E doc \in TmxDocs : tmx_files = [path \in {InputPath} |-> TreeWrite(doc)]
    /\ tmx_args \in
           {[input_path |-> InputPath, output_path |-> o, set_property |-> e] :
               o \in OutputPaths,
               e \in {<<>>} \cup {<<[key |-> k, value |-> v]>> : k \in TmxKeys, v \in TmxValues}}
    /\ tmx_tree = <<>>
    /\ tmx_result = <<>>
    /\ tmx_loaded = <<>>
    /\ ClassesIdle
    /\ PanelIdle

UnchangedOthers ==
    UNCHANGED <<tsx_paths, cache, heap, load_exc, metadata, n_applied, state,
                classes_json, classes_result, panel, event>>

\* main: round_trip(args.input, args.output, transform)
RoundTrip ==
    /\ pc = "tmx"
    /\ LET got == round_trip(tmx_files, tmx_args)
       IN /\ tmx_tree' = <<[parsed |-> got.parsed, root |-> got.tree]>>
          /\ tmx_files' = got.files
          /\ tmx_result' = <<got.result>>
          /\ pc' = IF got.result.ok THEN "tmx_written" ELSE "tmx_failed"
    /\ UNCHANGED <<tmx_args, tmx_loaded>>
    /\ UnchangedOthers

\* The written file is loaded again with the map loader
Reload ==
    /\ pc = "tmx_written"
    /\ tmx_loaded' = <<MapLoader(tmx_files[tmx_result[1].returned[1]])>>
    /\ pc' = "tmx_reloaded"
    /\ UNCHANGED <<tmx_args, tmx_files, tmx_tree, tmx_result>>
    /\ UnchangedOthers

NextTmx == RoundTrip \/ Reload

SpecTmx == InitTmx /\ [][NextTmx]_vars

-----------------------------------------------------------------------------
(* Properties of the TMX round trip *)

\* The <property> list of the first map-level <properties> of a tree
MapProperties(root) ==
    IF FindProperties(root) = 0 THEN <<>> ELSE root.children[FindProperties(root)].props

\* The number of map-level properties of the input that are named k
InputCount(k) ==
    Cardinality({m \in 1..Len(MapProperties(tmx_tree[1].parsed)) :
                    MapProperties(tmx_tree[1].parsed)[m].name = <<k>>})

\* C6: after set_property(root, k, v) and the write of round_trip, the map
\* loader's reload of the written file yields property k with value v.
C6_RoundTripYieldsProperty ==
    (pc = "tmx_reloaded" /\ tmx_args.set_property # <<>>) =>
        /\ tmx_loaded[1].ok
        /\ tmx_args.set_property[1].key \in DOMAIN tmx_loaded[1].properties
        /\ tmx_loaded[1].properties[tmx_args.set_property[1].key]
               = <<tmx_args.set_property[1].value>>

\* C6, for the maps that hold at most one map-level property named k: the
\* reload does yield (k, v).
C6_RoundTripOfUniqueName ==
    (/\ pc = "tmx_reloaded"
     /\ tmx_args.set_property # <<>>
     /\ InputCount(tmx_args.set_property[1].key) <= 1) =>
        /\ tmx_loaded[1].ok
        /\ tmx_args.set_property[1].key \in DOMAIN tmx_loaded[1].properties
        /\ tmx_loaded[1].properties[tmx_args.set_property[1].key]
               = <<tmx_args.set_property[1].value>>

\* C9: set_property(root, k, v) appends exactly one property (k, v) when the
\* map-level properties hold none named k; else the value of the (first)
\* property named k becomes v and none is added; either way every property
\* of another name keeps its name, value and position.
C9_SetPropertyAddsOrReplaces ==
    (pc \in {"tmx_written", "tmx_failed", "tmx_reloaded"} /\ tmx_args.set_property # <<>>) =>
        LET k == tmx_args.set_property[1].key
            v == tmx_args.set_property[1].value
            B == MapProperties(tmx_tree[1].parsed)
            A == MapProperties(tmx_tree[1].root)
            hits == {m \in 1..Len(B) : B[m].name = <<k>>}
        IN /\ hits = {} => A = Append(B, [name |-> <<k>>, value |-> <<v>>])
           /\ hits # {} =>
                  /\ Len(A) = Len(B)
                  /\ \E m \in hits :
                         /\ \A n \in hits : m <= n
                         /\ A[m] = [name |-> <<k>>, value |-> <<v>>]
           /\ \A m \in 1..Len(B) : B[m].name # <<k>> => (m <= Len(A) /\ A[m] = B[m])

\* C9 witness: a property named k is replaced by a different value while a
\* property of another name stands before or after it.
C9_Witness ==
    /\ pc \in {"tmx_written", "tmx_reloaded"}
    /\ tmx_args.set_property # <<>>
    /\ LET k == tmx_args.set_property[1].key
           v == tmx_args.set_property[1].value
           B == MapProperties(tmx_tree[1].parsed)
           A == MapProperties(tmx_tree[1].root)
       IN /\ Len(B) = 2
          /\ B[1].name = <<k>>
          /\ B[1].value # <<v>>
          /\ B[2].name # <<k>> /\ B[2].name # <<>>
          /\ A[1].value = <<v>>
          /\ v # <<>>

\* C11: round_trip returns the output path only when the map loader loads
\* the file it wrote; when that load fails the loader's error reaches the
\* caller and no path is returned.
C11_PathOnlyWhenReloadSucceeds ==
    pc \in {"tmx_written", "tmx_failed", "tmx_reloaded"} =>
        LET output == OutputOf(tmx_args)
            check == MapLoader(tmx_files[output])
            result == tmx_result[1]
        IN /\ output \in DOMAIN tmx_files
           /\ check.ok => (result.ok /\ result.returned = <<output>>)
           /\ ~check.ok => (~result.ok /\ result.exc = check.exc /\ result.returned = <<>>)

\* C11 witness: round_trip wrote copy.tmx beside the input with the edited
\* property, the loader refused the file and round_trip raised.
C11_Witness ==
    /\ pc = "tmx_failed"
    /\ tmx_args.set_property # <<>>
    /\ tmx_args.output_path # <<>>
    /\ OutputOf(tmx_args) # tmx_args.input_path
    /\ OutputOf(tmx_args) \in DOMAIN tmx_files
    /\ tmx_files[OutputOf(tmx_args)] = TreeWrite(tmx_tree[1].root)
    /\ ~MapLoader(tmx_files[OutputOf(tmx_args)]).ok
    /\ tmx_result[1].returned = <<>>
    /\ tmx_result[1].exc = "ValueError"

-----------------------------------------------------------------------------
(* The class data: load_classes on data/classes.json *)

\* A JSON object with the given optional members: each of opts is
\* <<key, <<>> >> (absent) or <<key, <<value>> >>
JsonObject(opts) ==
    [k \in {opts[n][1] : n \in {n \in 1..Len(opts) : opts[n][2] # <<>>}} |->
        opts[CHOOSE n \in 1..Len(opts) : opts[n][1] = k][2][1]]

StatsUps ==
    {JsonObject(<< <<"hp", hp>>, <<"def", df>>, <<"res", res>>, <<"str", str>> >>) :
        hp \in {<<>>, << <<>> >>, << <<1, 2>> >>}, df \in {<<>>, << <<1>> >>},
        res \in {<<>>, << <<0>> >>}, str \in {<<>>, << <<2>> >>}}

ClassEntries ==
    {JsonObject(<< <<"constitution", c>>, <<"move", m>>, <<"skills", sk>>,
                   <<"stats_up", su>> >>) :
        c \in {<<>>, <<0>>, <<2>>}, m \in {<<>>, <<3>>},
        sk \in {<<>>, << <<>> >>, << <<"s1">> >>, << <<"s2", "s1">> >>},
        su \in {<<>>} \cup {<<x>> : x \in StatsUps}}

SecondEntries ==
    {JsonObject(<< <<"stats_up", <<JsonObject(<< <<"hp", << <<3>> >> >> >>)>> >> >>),
     JsonObject(<< <<"move", <<1>> >> >>),
     JsonObject(<< <<"constitution", <<1>> >>, <<"skills", << <<"s1">> >> >>,
                   <<"stats_up", <<JsonObject(<<>>)>> >> >>)}

ClassFiles ==
    {JsonObject(<<>>)}
    \cup {JsonObject(<< <<"warrior", <<e>> >> >>) : e \in ClassEntries}
    \cup {JsonObject(<< <<"warrior", <<e>> >>, <<"mage", <<f>> >> >>) :
             e \in ClassEntries, f \in SecondEntries}

InitClasses ==
    /\ pc = "classes"
    /\ TilesetIdle
    /\ state = PaletteState(25)
    /\ tmx_args = <<>>
    /\ tmx_files = <<>>
    /\ tmx_tree = <<>>
    /\ tmx_result = <<>>
    /\ tmx_loaded = <<>>
    /\ classes_json \in {<<j>> : j \in ClassFiles}
    /\ classes_result = <<>>
    /\ PanelIdle

\* classes = load_classes()
LoadClasses ==
    /\ pc = "classes"
    /\ classes_result' = <<load_classes(classes_json[1])>>
    /\ pc' = IF load_classes(classes_json[1]).ok THEN "classes_done" ELSE "classes_failed"
    /\ UNCHANGED <<tsx_paths, cache, heap, load_exc, metadata, n_applied, state,
                   tmx_args, tmx_files, tmx_tree, tmx_result, tmx_loaded, classes_json,
                   panel, event>>

NextClasses == LoadClasses

SpecClasses == InitClasses /\ [][NextClasses]_vars

\* C10: after load_classes every class entry of the JSON has constitution,
\* move, skills and the stats_up sub-keys hp, def, res, str; values present
\* in the JSON are kept, absent constitution and move are 0, absent stats_up
\* lists are empty, and skills is the list of the Skills converted from the
\* listed names, in their order (empty when the key is absent).
C10_ClassesNormalized ==
    pc = "classes_done" =>
        /\ DOMAIN classes_result[1].classes = DOMAIN classes_json[1]
        /\ \A name \in DOMAIN classes_json[1] :
               LET in == classes_json[1][name]
                   out == classes_result[1].classes[name]
                   listed == IF "skills" \in DOMAIN in THEN in["skills"] ELSE <<>>
               IN /\ DOMAIN out = DOMAIN in \cup {"constitution", "move", "skills"}
                  /\ DOMAIN out["stats_up"] =
                         DOMAIN in["stats_up"] \cup {"hp", "def", "res", "str"}
                  /\ \A k \in {"constitution", "move"} :
                         out[k] = IF k \in DOMAIN in THEN in[k] ELSE 0
                  /\ \A k \in {"hp", "def", "res", "str"} :
                         out["stats_up"][k] =
                             IF k \in DOMAIN in["stats_up"] THEN in["stats_up"][k] ELSE <<>>
                  /\ Len(out["skills"]) = Len(listed)
                  /\ \A n \in 1..Len(listed) : out["skills"][n] = [skill |-> listed[n]]

\* C10 witness: a class with a constitution of 2, no move, two skills and a
\* stats_up that lacks def has been loaded beside a second class.
C10_Witness ==
    /\ pc = "classes_done"
    /\ DOMAIN classes_json[1] = {"warrior", "mage"}
    /\ "move" \notin DOMAIN classes_json[1]["warrior"]
    /\ "def" \notin DOMAIN classes_json[1]["warrior"]["stats_up"]
    /\ "hp" \in DOMAIN classes_json[1]["warrior"]["stats_up"]
    /\ classes_result[1].classes["warrior"]["stats_up"]["hp"] = <<1, 2>>
    /\ classes_result[1].classes["warrior"]["constitution"] = 2
    /\ classes_result[1].classes["warrior"]["move"] = 0
    /\ Len(classes_result[1].classes["warrior"]["skills"]) = 2
    /\ classes_result[1].classes["warrior"]["stats_up"]["def"] = <<>>

-----------------------------------------------------------------------------
(* The palette panel: palette_demo's main loop over a PalettePanel *)

CategoryTile(id, category) == TileNode(<<id>>, << <<Prop("category", category)>> >>, <<>>)

\* Image-based tilesets of MaxTiles tiles whose TSX tags tiles 0..2: with
\* the categories "a" and "b", or with "a" and a category named "none"
PanelInputs ==
    {Tsx("ts.tsx", "ts", TRUE, TRUE, Attrs(<<2>>, <<3>>, <<MaxTiles>>, <<2>>, <<>>, <<>>),
         OkImage, tiles) :
        tiles \in {<<CategoryTile(0, <<"a">>), CategoryTile(1, <<"b", ",", " ", "a">>),
                     CategoryTile(2, <<"b">>)>>,
                   <<CategoryTile(0, <<"a">>), CategoryTile(1, NoneKey),
                     CategoryTile(2, <<"a">>)>>}}

\* The panels built: the demo's rectangle with a grid of one row of three
\* cells, the short one with a row of two
PanelShapes ==
    {[rect |-> Rect(10, 10, 400, 420), config |-> PaletteUIConfig(3, 1)],
     [rect |-> Rect(10, 10, 400, 120), config |-> PaletteUIConfig(2, 1)]}

\* Mouse positions: the tileset bar, the dropdown's header, cell 0 (under
\* the first and the second item of the expanded list; the second is on the
\* short panel's previous-page button), the gutter between cells 0 and 1,
\* cell 1, cell 2 (right of the list), the paging buttons of both panels,
\* and a point on nothing
Points ==
    {<<20, 20>>, <<20, 50>>, <<20, 76>>, <<20, 100>>, <<67, 76>>, <<72, 76>>,
     <<160, 76>>, <<20, 400>>, <<360, 400>>, <<360, 100>>, <<300, 300>>}

MotionPoints == {<<72, 76>>, <<300, 300>>}

Keys == {"K_PAGEUP", "K_PAGEDOWN", "K_ESCAPE", "K_COMMA", "K_PERIOD", "K_SPACE"}

MouseButtonDownEvent(button, pos, shift) ==
    [type |-> "MOUSEBUTTONDOWN", button |-> button, pos |-> pos, shift |-> shift, key |-> ""]

MouseButtonUpEvent(button) ==
    [type |-> "MOUSEBUTTONUP", button |-> button, pos |-> <<0, 0>>, shift |-> FALSE,
     key |-> ""]

MouseMotionEvent(pos) ==
    [type |-> "MOUSEMOTION", button |-> 0, pos |-> pos, shift |-> FALSE, key |-> ""]

KeyDownEvent(key) ==
    [type |-> "KEYDOWN", button |-> 0, pos |-> <<0, 0>>, shift |-> FALSE, key |-> key]

\* What is kept of the last event: its type, button and key
Handled(ev) == <<[type |-> ev.type, button |-> ev.button, key |-> ev.key]>>

\* main up to the loop: the tilesets are loaded, the model shows the first
\* of them, and the panel is built over it
InitPanel ==
    /\ pc = "panel"
    /\ tsx_paths \in {<<t, OtherTsx>> : t \in PanelInputs}
    /\ metadata = <<>>
    /\ cache = load_tilesets(tsx_paths).cache
    /\ heap = load_tilesets(tsx_paths).heap
    /\ load_exc = ""
    /\ n_applied = 0
    /\ \E shape \in PanelShapes :
           /\ panel = <<PalettePanel(shape.rect, TRUE, shape.config)>>
           /\ state = PanelPageSize(set_tileset(PaletteState(25), TsxName(tsx_paths[1])),
                                    shape.config)
    /\ event = <<>>
    /\ tmx_args = <<>>
    /\ tmx_files = <<>>
    /\ tmx_tree = <<>>
    /\ tmx_result = <<>>
    /\ tmx_loaded = <<>>
    /\ ClassesIdle

UnchangedByPanel ==
    UNCHANGED <<pc, tsx_paths, cache, heap, load_exc, metadata, n_applied,
                tmx_args, tmx_files, tmx_tree, tmx_result, tmx_loaded,
                classes_json, classes_result>>

\* panel.handle_event(event)
Handle(ev) ==
    /\ pc = "panel"
    /\ LET got == handle_event(panel[1], cache, heap, state, ev)
       IN panel' = <<got.panel>> /\ state' = got.state
    /\ event' = Handled(ev)
    /\ UnchangedByPanel

\* A press of the left button anywhere with or without Shift, or of
\* another button (the middle and right ones, the wheel)
HandleMouseButtonDown ==
    \/ \E pos \in Points, shift \in BOOLEAN : Handle(MouseButtonDownEvent(1, pos, shift))
    \/ \E button \in 2..5 : Handle(MouseButtonDownEvent(button, <<300, 300>>, FALSE))

HandleMouseButtonUp == \E button \in 1..3 : Handle(MouseButtonUpEvent(button))

HandleMouseMotion == \E pos \in MotionPoints : Handle(MouseMotionEvent(pos))

HandleKeyDown == \E key \in Keys : Handle(KeyDownEvent(key))

\* panel.draw(screen)
Draw ==
    /\ pc = "panel"
    /\ panel' = <<draw(panel[1], cache, heap, state)>>
    /\ event' = <<[type |-> "draw", button |-> 0, key |-> ""]>>
    /\ UNCHANGED state
    /\ UnchangedByPanel

\* main: '[' and ']' step tileset_index through the cache's names and call
\* model.set_tileset; the panel then handles the key, which it ignores
SwitchTileset ==
    /\ pc = "panel"
    /\ \E delta \in {-1, 1} :
           LET tileset_names == [n \in 1..Len(tsx_paths) |-> TsxName(tsx_paths[n])]
               tileset_index == CHOOSE n \in 1..Len(tsx_paths) :
                                    tileset_names[n] = state.tileset_name[1]
               switched == set_tileset(state,
                               tileset_names[((tileset_index - 1 + delta) % Len(tsx_paths)) + 1])
               key == IF delta = -1 THEN "K_LEFTBRACKET" ELSE "K_RIGHTBRACKET"
               got == handle_event(panel[1], cache, heap, switched, KeyDownEvent(key))
           IN /\ panel' = <<got.panel>>
              /\ state' = got.state
              /\ event' = Handled(KeyDownEvent(key))
    /\ UnchangedByPanel

NextPanel ==
    \/ HandleMouseButtonDown
    \/ HandleMouseButtonUp
    \/ HandleMouseMotion
    \/ HandleKeyDown
    \/ Draw
    \/ SwitchTileset

SpecPanel == InitPanel /\ [][NextPanel]_vars

-----------------------------------------------------------------------------
(* Properties of the palette panel *)

\* The panel and the model's state after the panel handles ev now
After(ev) == handle_event(panel[1], cache, heap, state, ev)

WheelUp == MouseButtonDownEvent(4, <<300, 300>>, FALSE)

WheelDown == MouseButtonDownEvent(5, <<300, 300>>, FALSE)

\* The page a step to the previous or to the next page leads to
PreviousPage == IF state.page_index > 0 THEN state.page_index - 1 ELSE state.page_index

FollowingPage ==
    IF state.page_index + 1 < page_count(cache, heap, state)
    THEN state.page_index + 1
    ELSE state.page_index

\* C12 as claimed: whenever the panel handles a wheel-up (button 4) or a
\* PageUp, the model moves to the previous page unless it is on the first;
\* whenever it handles a wheel-down (button 5) or a PageDown, the model moves
\* to the next page unless it is on the last.
C12_WheelAndKeysAlwaysPage ==
    pc = "panel" =>
        /\ After(WheelUp).state.page_index = PreviousPage
        /\ After(KeyDownEvent("K_PAGEUP")).state.page_index = PreviousPage
        /\ After(WheelDown).state.page_index = FollowingPage
        /\ After(KeyDownEvent("K_PAGEDOWN")).state.page_index = FollowingPage

\* C12 as amended: PageUp and PageDown always page so; the wheel pages so
\* while the category dropdown is collapsed, and while it is expanded the
\* wheel leaves the page as it is.  Paging changes nothing else of the
\* model's state.
C12_WheelAndKeysPage ==
    pc = "panel" =>
        /\ After(KeyDownEvent("K_PAGEUP")).state = [state EXCEPT !.page_index = PreviousPage]
        /\ After(KeyDownEvent("K_PAGEDOWN")).state =
               [state EXCEPT !.page_index = FollowingPage]
        /\ ~panel[1]._dropdown_expanded =>
               /\ After(WheelUp).state = [state EXCEPT !.page_index = PreviousPage]
               /\ After(WheelDown).state = [state EXCEPT !.page_index = FollowingPage]
        /\ panel[1]._dropdown_expanded =>
               /\ After(WheelUp).state = state
               /\ After(WheelDown).state = state

\* C12 witness: with the dropdown collapsed the panel has handled a
\* wheel-down and the model shows the second of its pages.
C12_Witness ==
    /\ pc = "panel"
    /\ event # <<>>
    /\ event[1].type = "MOUSEBUTTONDOWN"
    /\ event[1].button = 5
    /\ ~panel[1]._dropdown_expanded
    /\ state.page_index = 1
    /\ page_count(cache, heap, state) = 2

\* Whether a left click at pos is taken before the grid is looked at: by
\* the tileset bar, the dropdown's header, an item of the expanded list or
\* a paging button
TakenBeforeGrid(pos) ==
    \/ collidepoint(_tileset_button(panel[1]), pos) /\ panel[1].on_tileset_menu
    \/ collidepoint(_dropdown_rect(panel[1]), pos)
    \/ panel[1]._dropdown_expanded /\ collidepoint(DropdownListRect(panel[1]), pos)
    \/ collidepoint(_prev_button(panel[1]), pos)
    \/ collidepoint(_next_button(panel[1]), pos)

\* A left click at pos, on the cell that shows tile, selects it and starts
\* its drag payload, in stamp mode exactly when Shift is held
ClickSelects(pos, shift, tile) ==
    LET got == After(MouseButtonDownEvent(1, pos, shift)).panel
    IN /\ got.selected = <<tile>>
       /\ got.drag_payload # <<>>
       /\ got.drag_payload[1].tileset_name = tile.tileset_name
       /\ got.drag_payload[1].local_id = tile.local_id
       /\ got.drag_payload[1].stamp_mode = shift

\* The clicks on a cell that shows a tile of the current page
TileClicks ==
    {c \in [pos : Points, shift : BOOLEAN, index : 0..(state.page_size - 1)] :
        /\ collidepoint(GridCell(panel[1], c.index), c.pos)
        /\ c.index < Len(page_tiles(cache, heap, state))}

\* C13 as claimed: every left click on a grid cell that shows a tile of the
\* current page selects that tile and starts its drag payload.
C13_ClickOnTileSelects ==
    pc = "panel" =>
        \A c \in TileClicks :
            ClickSelects(c.pos, c.shift, page_tiles(cache, heap, state)[c.index + 1])

\* C13 as amended: so does every such click that is not on the tileset bar,
\* the dropdown's header, the expanded dropdown list or a paging button.
C13_FreeClickOnTileSelects ==
    pc = "panel" =>
        \A c \in TileClicks :
            ~TakenBeforeGrid(c.pos) =>
                ClickSelects(c.pos, c.shift, page_tiles(cache, heap, state)[c.index + 1])

\* C13 witness: a left click with Shift held has selected the tile in the
\* second cell of the second page, and the payload is in stamp mode.
C13_Witness ==
    /\ pc = "panel"
    /\ event # <<>>
    /\ event[1].type = "MOUSEBUTTONDOWN"
    /\ event[1].button = 1
    /\ state.page_index = 1
    /\ Len(page_tiles(cache, heap, state)) >= 2
    /\ panel[1].selected = <<page_tiles(cache, heap, state)[2]>>
    /\ panel[1].drag_payload # <<>>
    /\ panel[1].drag_payload[1].local_id = panel[1].selected[1].local_id
    /\ panel[1].drag_payload[1].stamp_mode

\* The panel and the model's state after n presses of the period key
RECURSIVE Forward(_, _, _)
Forward(p, st, n) ==
    IF n = 0 THEN PanelAndState(p, st)
    ELSE LET got == handle_event(p, cache, heap, st, KeyDownEvent("K_PERIOD"))
         IN Forward(got.panel, got.state, n - 1)

\* A forward step followed by a backward step restores the active filter,
\* and len(categories) + 1 forward steps return to it
CycleReturns ==
    LET forth == After(KeyDownEvent("K_PERIOD"))
        back == handle_event(forth.panel, cache, heap, forth.state, KeyDownEvent("K_COMMA"))
    IN /\ back.panel._active_filter = panel[1]._active_filter
       /\ Forward(panel[1], state, Len(panel[1]._categories) + 1).panel._active_filter
              = panel[1]._active_filter

\* C15: the comma and period keys cycle the active filter backward and
\* forward through ["none"] + sorted categories with wrap-around: a forward
\* step followed by a backward step restores the active filter, and
\* len(categories) + 1 forward steps return to the starting filter.
C15_CategoryCycle == pc = "panel" => CycleReturns

\* The same for panels whose tiles carry no category named "none"
C15_CycleWithoutNoneCategory ==
    (pc = "panel" /\ \A n \in 1..Len(panel[1]._categories) :
                         panel[1]._categories[n] # NoneKey)
        => /\ CycleReturns
           /\ \A n \in 1..(Len(panel[1]._categories) + 1) :
                  panel[1]._active_filter = DropdownItems(panel[1])[n] =>
                      After(KeyDownEvent("K_PERIOD")).panel._active_filter =
                          DropdownItems(panel[1])[(n % (Len(panel[1]._categories) + 1)) + 1]

\* C16: after any sequence of panel events, draw calls and tileset switches
\* the filter the panel shows agrees with the filter the model applies:
\* _active_filter is "none" exactly when model.state.filter_fn is None.
C16_ShownFilterIsApplied ==
    pc = "panel" => (panel[1]._active_filter = NoneKey <=> state.filter_fn = <<>>)

\* One direction of the agreement: a category the panel shows is the one
\* the model filters by
C16_ShownCategoryIsApplied ==
    pc = "panel" =>
        (panel[1]._active_filter # NoneKey =>
             state.filter_fn = <<category_filter(panel[1]._active_filter)>>)

\* C17: a drag payload implies a selection naming the same tile; releasing
\* mouse button 1 or 3 clears the payload and keeps the selection; applying
\* a filter (Escape, a cycling key that reaches a filter, a click on an item
\* of the expanded list) clears both.
C17_PayloadImpliesSelection ==
    pc = "panel" =>
        /\ panel[1].drag_payload # <<>> =>
               /\ panel[1].selected # <<>>
               /\ panel[1].selected[1].tileset_name = panel[1].drag_payload[1].tileset_name
               /\ panel[1].selected[1].local_id = panel[1].drag_payload[1].local_id
        /\ \A button \in {1, 3} :
               /\ After(MouseButtonUpEvent(button)).panel.drag_payload = <<>>
               /\ After(MouseButtonUpEvent(button)).panel.selected = panel[1].selected
        /\ \A key \in {"K_ESCAPE", "K_COMMA", "K_PERIOD"} :
               /\ After(KeyDownEvent(key)).panel.selected = <<>>
               /\ After(KeyDownEvent(key)).panel.drag_payload = <<>>
        /\ \A pos \in Points :
               (/\ ~(collidepoint(_tileset_button(panel[1]), pos) /\ panel[1].on_tileset_menu)
                /\ ~collidepoint(_dropdown_rect(panel[1]), pos)
                /\ _dropdown_item_at(panel[1], pos) # <<>>)
                   => /\ After(MouseButtonDownEvent(1, pos, FALSE)).panel.selected = <<>>
                      /\ After(MouseButtonDownEvent(1, pos, FALSE)).panel.drag_payload = <<>>
                      /\ After(MouseButtonDownEvent(1, pos, FALSE)).panel._active_filter
                             = _dropdown_item_at(panel[1], pos)[1]

\* C17 witness: the left button has been released after a click that
\* selected a tile: the payload is gone and the selection is kept.
C17_Witness ==
    /\ pc = "panel"
    /\ event # <<>>
    /\ event[1].type = "MOUSEBUTTONUP"
    /\ event[1].button = 1
    /\ panel[1].selected # <<>>
    /\ panel[1].selected[1].local_id = 1
    /\ panel[1].drag_payload = <<>>

====
